---- MODULE Spec2Model ----
(***************************************************************************)
(* Model of the core of web_outlook_app.py: the retrieval failover of      *)
(* api_get_emails, the login rate limiter (check_rate_limit,               *)
(* record_login_failure, reset_login_attempts, login), the credential      *)
(* vault (encrypt_data, decrypt_data), the credential validation paths     *)
(* (api_refresh_account, api_refresh_all_accounts,                         *)
(* api_refresh_failed_accounts, api_trigger_scheduled_refresh,             *)
(* scheduled_refresh_task), the credential store (add_account,             *)
(* update_account, the deletes and the reads), message deletion and        *)
(* detail, the token acquisitions, sanitize_error_details, the IMAP        *)
(* backend get_emails_imap_with_server and delete_emails_graph.            *)
(*                                                                         *)
(* Each component has its own specification over the shared variables:     *)
(*   SpecList       one api_get_emails request at a time, one backend      *)
(*                  attempt per step (each is a blocking network call);    *)
(*   SpecGuard      login requests handled one at a time;                  *)
(*   SpecGuardConc  login requests of one source interleaved;              *)
(*   SpecBatch      one streaming batch run, one generator segment per     *)
(*                  step; SpecBatchFair when the stream is read to its end;*)
(*   SpecValidate   every validation path, one run at a time;              *)
(*   SpecSched      the scheduled entry points, timer thread and request   *)
(*                  thread interleaved, with days passing;                 *)
(*   SpecVault      encrypt_data and decrypt_data applied to any string;   *)
(*   SpecStore      start-up over an earlier database file, then the       *)
(*                  operations on the table accounts, one at a time;       *)
(*   SpecStoreLogs  imports, validations and deletes, with the log table;  *)
(*   SpecMsg        api_delete_emails, delete_emails_imap and              *)
(*                  api_get_email_detail, one request at a time;           *)
(*   SpecSanitize   sanitize_error_details applied to any error body;      *)
(*   SpecToken      the two token acquisitions, the endpoint answering     *)
(*                  anything;                                              *)
(*   SpecTokenTest  test_refresh_token on any answer of the endpoint;      *)
(*   SpecImap       get_emails_imap_with_server on any folder, window and  *)
(*                  answers of the server;                                 *)
(*   SpecThrottle   every validation run with its delay between accounts;  *)
(*   SpecDelete     delete_emails_graph on any list of ids and answers of  *)
(*                  the batch endpoint.                                    *)
(***************************************************************************)
EXTENDS Integers, Sequences, FiniteSets, TLC

VARIABLES
    \* ---- api_get_emails ----
    l_pc,            \* position of the handler: idle, graph, imap_new, imap_old, done
    l_req,           \* the request: [account, skip, top]
    all_errors,      \* the dict all_errors, as its items in insertion order
    attempts,        \* history: the backends attempted by the current request
    token_requests,  \* history: the token requests made, [url, res] each
    results,         \* history: the result each attempted backend returned
    l_resp,          \* the JSON response of the handler (NoResp until it returns)
    \* ---- login rate limiter ----
    now,             \* time.time(), in seconds
    login_attempts,  \* the dict login_attempts: source -> record (Absent when no key)
    g_req,           \* login requests in flight: slot -> [pc, ip]
    g_resp,          \* history: the outcome of the last login handler step
    \* ---- streaming batch validation ----
    b_pc,            \* position of the generator: idle, loop, test, sleep, done
    accounts,        \* the active accounts fetched at the start of the run
    delay_seconds,   \* the setting refresh_delay_seconds read by the run
    refresh_type,    \* manual or scheduled, by the route that runs the generator
    success_count,
    failed_count,
    failed_list,
    index,           \* enumerate(accounts, 1)
    events,          \* the events yielded so far
    refresh_logs,    \* the rows of account_refresh_logs, in insertion order
    refresh_requests, \* history: the requests test_refresh_token has sent
    \* ---- accounts table ----
    last_refresh_at, \* accounts.last_refresh_at: account id -> time of the last
                     \* update (None when never updated)
    \* ---- credential vault ----
    v_pc,            \* idle, input, encrypted, decrypted, encrypted_twice, round_trip
    v_in,            \* the argument of the first call
    v_out,           \* what the first call gave back
    v_out2,          \* what the second call gave back
    \* ---- timer-driven validation ----
    t_pc,            \* position of scheduled_refresh_task: idle, loop, sleep
    t_accounts,      \* the active accounts fetched by trigger_refresh_internal
    t_delay,         \* delay_seconds of trigger_refresh_internal
    t_index,         \* enumerate(accounts, 1) of trigger_refresh_internal
    sched,           \* history: the last decision of a scheduled entry point
    \* ---- credential store ----
    s_pc,            \* boot (migrate_sensitive_data not yet run), up
    db_accounts,     \* the rows of the table accounts, in id order
    db_seq,          \* the AUTOINCREMENT counter of accounts
    db_secrets,      \* history: account id -> the secrets it was last written with
    s_resp,          \* history: the reply of the last store operation
    \* ---- message deletion and detail ----
    mailbox,         \* the ids of the messages in the provider's mailbox
    m_req,           \* history: the last request of a message handler
    m_calls,         \* history: the backends that request called, in order
    m_resp,          \* history: the response to that request
    \* ---- error reports ----
    e_body,          \* history: the error body sanitize_error_details was given
    e_details,       \* history: what it gave back
    k_req,           \* history: the last token request, [url, res]
    k_result,        \* history: what the token acquisition returned
    k_tested,        \* history: what test_refresh_token returned
    \* ---- get_emails_imap_with_server ----
    i_pc,            \* idle, call, returned
    i_req,           \* the arguments of the call and what the hosts answer
    i_session,       \* history: the result, the selects and the fetches of the call
    \* ---- delete_emails_graph ----
    d_pc,            \* idle, call, returned
    d_req,           \* the arguments of the call and the answers to its batches
    d_res            \* history: the result and the batches sent

listVars == <<l_pc, l_req, all_errors, attempts, token_requests, results, l_resp>>

guardVars == <<now, login_attempts, g_req, g_resp>>

batchVars == <<b_pc, accounts, delay_seconds, refresh_type, success_count, failed_count,
               failed_list, index, events, refresh_logs, refresh_requests>>

dbVars == <<last_refresh_at>>

vaultVars == <<v_pc, v_in, v_out, v_out2>>

timerVars == <<t_pc, t_accounts, t_delay, t_index, sched>>

storeVars == <<s_pc, db_accounts, db_seq, db_secrets, s_resp>>

msgVars == <<mailbox, m_req, m_calls, m_resp>>

errVars == <<e_body, e_details, k_req, k_result, k_tested>>

imapVars == <<i_pc, i_req, i_session>>

deleteVars == <<d_pc, d_req, d_res>>

vars == <<listVars, guardVars, batchVars, dbVars, vaultVars, timerVars, storeVars, msgVars,
          errVars, imapVars, deleteVars>>

(***************************************************************************)
(* Bounds                                                                  *)
(***************************************************************************)
MaxTotal == 3        \* messages in a folder
MaxTop == 2          \* page size asked for (top)
MaxSkip == 2         \* page offset asked for (skip)
NumSources == 1      \* client addresses that log in
NumReq == 2          \* login requests that can be in flight together
MaxTicks == 10       \* clock ticks in a run
TickUnit == 100      \* seconds per clock tick
MaxAccounts == 3     \* active accounts in a batch run
MaxLen == 3          \* symbols in a string given to the vault
MaxDays == 1         \* days that pass
MaxRunAccounts == 1  \* accounts present when several validation paths run
MaxLogs == 2         \* log rows present when a validation starts
MaxRows == 2         \* account rows ever inserted into the table accounts
MaxThrottleAccounts == 2   \* accounts of a run whose delays are observed
MaxThrottleLogs == 4       \* log rows present when such a run starts
MaxDeleteIds == 41         \* message ids in a call of delete_emails_graph

(***************************************************************************)
(* Configuration                                                           *)
(***************************************************************************)
TOKEN_URL_GRAPH == "https://login.microsoftonline.com/common/oauth2/v2.0/token"
TOKEN_URL_IMAP == "https://login.microsoftonline.com/consumers/oauth2/v2.0/token"
IMAP_SERVER_OLD == "outlook.office365.com"
IMAP_SERVER_NEW == "outlook.live.com"
MAX_LOGIN_ATTEMPTS == 5
LOCKOUT_DURATION == 300
ATTEMPT_WINDOW == 600
DAY == 86400         \* seconds in timedelta(days=1)
DEFAULT_DELAY_SECONDS == 5     \* int(delay_row['value']) if delay_row else 5
BATCH_SIZE == 20                \* sub-requests in a batch of delete_emails_graph
AVAILABLE_FOLDERS_SHOWN == 10   \* available_folders[:10]

(***************************************************************************)
(* Helpers                                                                 *)
(***************************************************************************)
Max(a, b) == IF a >= b THEN a ELSE b
Min(a, b) == IF a <= b THEN a ELSE b

None == -1       \* Python's None, where a number is expected

AccountIds == 1..MaxAccounts

\* ids hi, hi-1, ..., lo (empty when hi < lo)
Descending(hi, lo) == [i \in 1..Max(0, hi - lo + 1) |-> hi - i + 1]

RECURSIVE SelectSeq2(_, _)
\* the elements of s that are not in the set bad, in order
SelectSeq2(s, bad) ==
    IF s = <<>> THEN <<>>
    ELSE IF Head(s) \in bad THEN SelectSeq2(Tail(s), bad)
    ELSE <<Head(s)>> \o SelectSeq2(Tail(s), bad)

(***************************************************************************)
(* Error texts and sanitize_error_details                                  *)
(*                                                                         *)
(* A text is a sequence of symbols. A word (a key name, bearer, any other  *)
(* run of letters, digits and _) is one symbol and stands for any casing   *)
(* of it; "a" is one character of the class [A-Za-z0-9\-._~\+/]; "!" is    *)
(* one character outside that class that is no quote, no white space and   *)
(* none of & = : (as $ or @); the punctuation characters are themselves.   *)
(***************************************************************************)
Q == "\""

\* the characters that are not in [A-Za-z0-9\-._~\+/]
NonTok == {Q, ":", "=", "&", " ", "!", "*", "{", "}", ",", "[", "]"}

MASK == <<"*", "*", "*">>

\* an element of a regular expression: a character class (the symbols in
\* set, or those outside it when neg) and its quantifier: 1, ?, * or +
Elem(quant, set, neg) == [quant |-> quant, set |-> set, neg |-> neg]

One(set) == Elem("1", set, FALSE)
Opt(set) == Elem("?", set, FALSE)
Star(set) == Elem("*", set, FALSE)
Plus(set) == Elem("+", set, FALSE)
PlusNot(set) == Elem("+", set, TRUE)

\* a pattern and its replacement: the elements, how many leading elements
\* are group 1, what the replacement puts after \1, and how many trailing
\* elements are group 2 (put back at the end)
Pattern(elems, group1, put, group2) ==
    [elems |-> elems, group1 |-> group1, put |-> put, group2 |-> group2]

\* the key alternatives of the second pattern; client_secret is matched by
\* its end
KeyValueKeys ==
    {"refresh_token", "access_token", "token", "password", "passwd", "secret", "client_secret"}

\* (\"<key>\"\s*:\s*\")[^\"]+(\"?)  ->  \1***\2
json_member_pattern(key) ==
    Pattern(<<One({Q}), One({key}), One({Q}), Star({" "}), One({":"}), Star({" "}), One({Q}),
              PlusNot({Q}), Opt({Q})>>, 7, MASK, 1)

\* the list patterns of sanitize_error_details, in its order
patterns ==
    << \* (bearer\s+)[A-Za-z0-9\-._~\+/]+=*  ->  \1***
       Pattern(<<One({"bearer"}), Plus({" "}), PlusNot(NonTok), Star({"="})>>, 2, MASK, 0),
       \* (refresh_token|access_token|token|password|passwd|secret)
       \*     \s*[:=]\s*\"?[A-Za-z0-9\-._~\+/]+=*\"?  ->  \1=***
       Pattern(<<One(KeyValueKeys), Star({" "}), One({":", "="}), Star({" "}), Opt({Q}),
                 PlusNot(NonTok), Star({"="}), Opt({Q})>>, 1, <<"=">> \o MASK, 0),
       json_member_pattern("refresh_token"),
       json_member_pattern("access_token"),
       json_member_pattern("password"),
       \* (client_secret|refresh_token|access_token)=[^&\s]+  ->  \1=***
       Pattern(<<One({"client_secret", "refresh_token", "access_token"}), One({"="}),
                 PlusNot({"&", " "})>>, 1, <<"=">> \o MASK, 0) >>

RECURSIVE Run(_, _, _)
\* how many symbols of s from position i on are of the class of elem
Run(elem, s, i) ==
    IF i <= Len(s) /\ ((s[i] \in elem.set) # elem.neg) THEN 1 + Run(elem, s, i + 1) ELSE 0

\* how many symbols elem takes at position i (greedy), -1 when it fails
Taken(elem, s, i) ==
    CASE elem.quant = "1" -> IF Run(elem, s, i) >= 1 THEN 1 ELSE -1
      [] elem.quant = "?" -> IF Run(elem, s, i) >= 1 THEN 1 ELSE 0
      [] elem.quant = "*" -> Run(elem, s, i)
      [] elem.quant = "+" -> IF Run(elem, s, i) >= 1 THEN Run(elem, s, i) ELSE -1

RECURSIVE match_end(_, _, _, _)
\* the position after a match of elems[n..] at position i, 0 when there is
\* none; classes next to each other in the patterns are disjoint, so the
\* greedy match is the one the regular expression engine finds
match_end(elems, n, s, i) ==
    IF n > Len(elems) THEN i
    ELSE IF Taken(elems[n], s, i) < 0 THEN 0
    ELSE match_end(elems, n + 1, s, i + Taken(elems[n], s, i))

\* the replacement of the match of pattern that ends before position end
expand(pattern, s, i, end) ==
    SubSeq(s, i, match_end(SubSeq(pattern.elems, 1, pattern.group1), 1, s, i) - 1)
    \o pattern.put
    \o SubSeq(s, match_end(SubSeq(pattern.elems, 1, Len(pattern.elems) - pattern.group2), 1, s, i),
              end - 1)

\* the positions from i on where the pattern matches
match_starts(pattern, s, i) == {j \in i..Len(s) : match_end(pattern.elems, 1, s, j) # 0}

\* the least position of a set of positions, 0 when there is none
leftmost(positions) ==
    IF positions = {} THEN 0 ELSE CHOOSE j \in positions : \A k \in positions : j <= k

\* where the scan from i on finds the pattern first, 0 when nowhere
search(pattern, s, i) == leftmost(match_starts(pattern, s, i))

RECURSIVE re_sub(_, _, _)
\* the text from i on with the match that starts at j replaced and the scan
\* resumed behind it; the rest of the text as it is when j is 0
replace_match(pattern, s, i, j, end) ==
    IF j = 0 THEN SubSeq(s, i, Len(s))
    ELSE SubSeq(s, i, j - 1) \o expand(pattern, s, j, end) \o re_sub(pattern, s, end)

\* re.sub(pattern, repl, s) from position i on: leftmost matches, not
\* overlapping, each replaced
re_sub(pattern, s, i) ==
    replace_match(pattern, s, i, search(pattern, s, i),
                  match_end(pattern.elems, 1, s, search(pattern, s, i)))

RECURSIVE sanitize_from(_, _)
\* the loop over patterns, from the n-th one on
sanitize_from(n, sanitized) ==
    IF n > Len(patterns) THEN sanitized
    ELSE sanitize_from(n + 1, re_sub(patterns[n], sanitized, 1))

sanitize_error_details(details) ==
    IF details = <<>> THEN <<>> ELSE sanitize_from(1, details)

RECURSIVE json_dumps(_, _)
\* json.dumps of the parsed body: white space between the tokens is
\* normalised to one space after : and after , (in_string: inside a string)
json_dumps(s, in_string) ==
    IF s = <<>> THEN <<>>
    ELSE IF Head(s) = Q THEN <<Q>> \o json_dumps(Tail(s), ~in_string)
    ELSE IF in_string THEN <<Head(s)>> \o json_dumps(Tail(s), in_string)
    ELSE IF Head(s) = " " THEN json_dumps(Tail(s), in_string)
    ELSE IF Head(s) \in {":", ","} THEN <<Head(s), " ">> \o json_dumps(Tail(s), in_string)
    ELSE <<Head(s)>> \o json_dumps(Tail(s), in_string)

\* s has v as a run of consecutive symbols
Contains(s, v) ==
    \E i \in 1..Len(s) : i + Len(v) - 1 <= Len(s) /\ SubSeq(s, i, i + Len(v) - 1) = v

(***************************************************************************)
(* Error payloads and results                                              *)
(***************************************************************************)
NoError == [code |-> "", type |-> "", status |-> 0, details |-> <<>>]

\* build_error_payload without message and trace_id; details is the text (a
\* parsed body is given as its json.dumps)
build_error_payload(code, err_type, status, details) ==
    [code |-> code, type |-> err_type, status |-> status,
     details |-> sanitize_error_details(details)]

Failure(err) == [success |-> FALSE, emails |-> <<>>, error |-> err]
Success(emails) == [success |-> TRUE, emails |-> emails, error |-> NoError]

(***************************************************************************)
(* Provider responses (inputs)                                             *)
(***************************************************************************)
\* a JSON object with one string member, sp the white space after the colon
JsonBody(key, value, sp) ==
    <<"{", Q, key, Q, ":">> \o sp \o <<Q>> \o value \o <<Q, "}">>

\* an answer of the token endpoint: exc when requests raised (body is then
\* the text of the exception), json when the body parses as a JSON object,
\* has_token when that object has a non-empty access_token
TokenAnswer(exc, status, json, has_token, body) ==
    [exc |-> exc, status |-> status, json |-> json, has_token |-> has_token, body |-> body]

\* what the token endpoint answers: an exception (timeout, connection error),
\* a non-200 status, a 200 without access_token, or a 200 with one
TokenResponses ==
    { TokenAnswer(TRUE, 0, FALSE, FALSE, <<"timeout">>),
      TokenAnswer(FALSE, 400, FALSE, FALSE, <<"invalid_grant">>),
      TokenAnswer(FALSE, 200, TRUE, FALSE, <<"{", "}">>),
      TokenAnswer(FALSE, 200, TRUE, TRUE, JsonBody("access_token", <<"a">>, <<>>)) }

\* what GET /mailFolders/{folder}/messages answers; total is the number of
\* messages in the folder (ids 1..total, oldest first)
GraphResponses ==
    { [exc |-> TRUE,  status |-> 0,   total |-> 0],
      [exc |-> FALSE, status |-> 401, total |-> 0] }
    \cup { [exc |-> FALSE, status |-> 200, total |-> n] : n \in 0..MaxTotal }

\* what the IMAP host does: connect/authenticate may raise; select returns
\* OK for the names in selectable; list raises or returns names; search may
\* fail; the folder holds total messages; fetch of the ids in bad fails
ImapAnswer(connect_ok, selectable, listed, search_ok, total, bad) ==
    [connect_ok |-> connect_ok, selectable |-> selectable, listed |-> listed,
     search_ok |-> search_ok, total |-> total, bad |-> bad]

\* what connection.list() gives: an exception, or names (none when its
\* status is not OK)
Listed(raised, names) == [raised |-> raised, names |-> names]

\* the folders of a mailbox, as list returns them
FolderNames ==
    <<"Inbox", "Drafts", "Sent", "Deleted", "Junk", "Archive", "Notes", "Outbox", "Calendar",
      "Contacts", "Journal">>

\* the IMAP host for a request of the inbox: select of every candidate may
\* fail
ImapResponses ==
    { ImapAnswer(FALSE, {}, Listed(FALSE, <<>>), FALSE, 0, {}),
      ImapAnswer(TRUE, {}, Listed(FALSE, SubSeq(FolderNames, 1, 2)), FALSE, 0, {}),
      ImapAnswer(TRUE, {"\"INBOX\""}, Listed(FALSE, <<>>), FALSE, 0, {}) }
    \cup { ImapAnswer(TRUE, {"\"INBOX\""}, Listed(FALSE, <<>>), TRUE, n, b) :
             n \in 0..MaxTotal, b \in {{}, {1}} }

(***************************************************************************)
(* TokenAcquirer                                                           *)
(***************************************************************************)
\* str(exc) of the exception res.json() raises on a body that is no JSON
JSON_ERROR_TEXT == <<"Expecting", " ", "value">>

\* get_response_details: the parsed body, else its text
get_response_details(res) == IF res.json THEN json_dumps(res.body, FALSE) ELSE res.body

get_access_token_graph_result(res) ==
    IF res.exc
    THEN Failure(build_error_payload("GRAPH_TOKEN_EXCEPTION", "Exception", 500, res.body))
    ELSE IF res.status # 200
    THEN Failure(build_error_payload("GRAPH_TOKEN_FAILED", "GraphAPIError", res.status,
                                     get_response_details(res)))
    ELSE IF ~res.json
    THEN Failure(build_error_payload("GRAPH_TOKEN_EXCEPTION", "JSONDecodeError", 500,
                                     JSON_ERROR_TEXT))
    ELSE IF ~res.has_token
    THEN Failure(build_error_payload("GRAPH_TOKEN_MISSING", "GraphAPIError", res.status,
                                     json_dumps(res.body, FALSE)))
    ELSE Success(<<>>)

get_access_token_imap_result(res) ==
    IF res.exc
    THEN Failure(build_error_payload("IMAP_TOKEN_EXCEPTION", "Exception", 500, res.body))
    ELSE IF res.status # 200
    THEN Failure(build_error_payload("IMAP_TOKEN_FAILED", "IMAPError", res.status,
                                     get_response_details(res)))
    ELSE IF ~res.json
    THEN Failure(build_error_payload("IMAP_TOKEN_EXCEPTION", "JSONDecodeError", 500,
                                     JSON_ERROR_TEXT))
    ELSE IF ~res.has_token
    THEN Failure(build_error_payload("IMAP_TOKEN_MISSING", "IMAPError", res.status,
                                     json_dumps(res.body, FALSE)))
    ELSE Success(<<>>)

(***************************************************************************)
(* Backends                                                                *)
(***************************************************************************)
\* the page the Graph API returns for $orderby=receivedDateTime desc, $skip, $top
GraphPage(total, skip, top) == Descending(total - skip, Max(1, total - skip - top + 1))

get_emails_graph(tok, res, skip, top) ==
    LET token_result == get_access_token_graph_result(tok) IN
    IF ~token_result.success THEN Failure(token_result.error)
    ELSE IF res.exc
    THEN Failure(build_error_payload("EMAIL_FETCH_FAILED", "Exception", 500, <<>>))
    ELSE IF res.status # 200
    THEN Failure(build_error_payload("EMAIL_FETCH_FAILED", "GraphAPIError", res.status, <<>>))
    ELSE Success(GraphPage(res.total, skip, top))

\* message_ids[start_idx:end_idx][::-1] over message_ids = <<1, ..., total>>
paged_ids(total, skip, top) ==
    LET start_idx == Max(0, total - skip - top)
        end_idx == total - skip
    IN  IF start_idx >= end_idx THEN <<>> ELSE Descending(end_idx, start_idx + 1)

\* folder_map.get(folder.lower(), ['"INBOX"']): the IMAP names tried for a
\* logical folder, in their order (a name is one symbol; the two Chinese
\* names are written by their code points)
possible_folders(folder) ==
    CASE folder = "inbox" -> <<"\"INBOX\"", "INBOX">>
      [] folder = "junkemail" ->
            <<"\"Junk\"", "\"Junk Email\"", "Junk", "\"U+5783 U+573E U+90AE U+4EF6\"">>
      [] folder \in {"deleteditems", "trash"} ->
            <<"\"Deleted\"", "\"Deleted Items\"", "\"Trash\"", "Deleted",
              "\"U+5DF2 U+5220 U+9664 U+90AE U+4EF6\"">>
      [] OTHER -> <<"\"INBOX\"">>

\* a loop without the break: every name is tried
select_folder_all(names, selectable) ==
    LET hits == {n \in 1..Len(names) : names[n] \in selectable}
        first == IF hits = {} THEN 0 ELSE CHOOSE n \in hits : \A m \in hits : n <= m
    IN  [selected |-> first, tried |-> names]

\* the loop over possible_folders: select is called with the names in order
\* until one returns OK; selected is the position of that name, 0 when none
select_folder(names, selectable) ==
    LET hits == {n \in 1..Len(names) : names[n] \in selectable}
        first == IF hits = {} THEN 0 ELSE CHOOSE n \in hits : \A m \in hits : n <= m
    IN  [selected |-> first,
         tried |-> SubSeq(names, 1, IF first = 0 THEN Len(names) ELSE first)]

RECURSIVE json_array_items(_)
\* the items of a JSON array of strings
json_array_items(names) ==
    IF names = <<>> THEN <<>>
    ELSE IF Len(names) = 1 THEN <<Q, names[1], Q>>
    ELSE <<Q, names[1], Q, ",", " ">> \o json_array_items(Tail(names))

json_member(key, value) == <<Q, key, Q, ":", " ">> \o value

json_array(names) == <<"[">> \o json_array_items(names) \o <<"]">>

\* json.dumps of error_details: last_error and tried_folders, and
\* available_folders (the first AVAILABLE_FOLDERS_SHOWN names) unless
\* connection.list() raised
select_error_details(tried, listed) ==
    <<"{">> \o json_member("last_error",
                           <<Q, "select", " ", tried[Len(tried)], " ", "status", "=", "NO", Q>>)
    \o <<",", " ">> \o json_member("tried_folders", json_array(tried))
    \o (IF listed.raised THEN <<>>
        ELSE <<",", " ">>
             \o json_member("available_folders",
                            json_array(SubSeq(listed.names, 1,
                                              Min(AVAILABLE_FOLDERS_SHOWN, Len(listed.names))))))
    \o <<"}">>

\* one session of get_emails_imap_with_server: its result, the names select
\* was called with and the ids fetch was called with
Session(result, tried, fetched) == [result |-> result, tried |-> tried, fetched |-> fetched]

imap_session(tok, res, folder, skip, top) ==
    LET token_result == get_access_token_imap_result(tok)
        probe == select_folder(possible_folders(folder), res.selectable)
    IN  IF ~token_result.success THEN Session(Failure(token_result.error), <<>>, <<>>)
        ELSE IF ~res.connect_ok
        THEN Session(Failure(build_error_payload("EMAIL_FETCH_FAILED", "Exception", 500, <<>>)),
                     <<>>, <<>>)
        ELSE IF probe.selected = 0
        THEN Session(Failure(build_error_payload("EMAIL_FETCH_FAILED", "IMAPSelectError", 500,
                                                 select_error_details(probe.tried, res.listed))),
                     probe.tried, <<>>)
        ELSE IF ~res.search_ok
        THEN Session(Failure(build_error_payload("EMAIL_FETCH_FAILED", "IMAPSearchError", 500,
                                                 <<>>)),
                     probe.tried, <<>>)
        ELSE IF res.total = 0 THEN Session(Success(<<>>), probe.tried, <<>>)
        ELSE Session(Success(SelectSeq2(paged_ids(res.total, skip, top), res.bad)),
                     probe.tried, paged_ids(res.total, skip, top))

get_emails_imap_with_server(tok, res, folder, skip, top) ==
    imap_session(tok, res, folder, skip, top).result

(***************************************************************************)
(* api_get_emails                                                          *)
(***************************************************************************)
NoResp == [success |-> FALSE, emails |-> <<>>, method |-> "", has_more |-> FALSE,
           error |-> "", details |-> <<>>, returned |-> FALSE]

\* mutant: the legacy host is tried before the modern host
NextAttemptSwapped(pc) ==
    CASE pc = "graph" -> "imap_old"
      [] pc = "imap_old" -> "imap_new"
      [] OTHER -> "failed"

\* mutant: a failed Graph attempt ends the request
NextAttemptStop(pc) ==
    CASE pc = "imap_new" -> "imap_old"
      [] OTHER -> "failed"

\* where the handler goes when the attempt at pc failed
NextAttempt(pc) ==
    CASE pc = "graph" -> "imap_new"
      [] pc = "imap_new" -> "imap_old"
      [] OTHER -> "failed"

\* mutant: each recorded error replaces the ones recorded before it
DictSetOverwrite(d, key, err) == <<[key |-> key, error |-> err]>>

\* all_errors[key] = err on a dict held as its items in insertion order
DictSet(d, key, err) ==
    IF \E i \in 1..Len(d) : d[i].key = key
    THEN [i \in 1..Len(d) |-> IF d[i].key = key THEN [key |-> key, error |-> err] ELSE d[i]]
    ELSE Append(d, [key |-> key, error |-> err])

graph_has_more(emails, top) == Len(emails) >= top
imap_has_more(emails, top) == FALSE

SuccessResp(emails, method, has_more) ==
    [success |-> TRUE, emails |-> emails, method |-> method, has_more |-> has_more,
     error |-> "", details |-> <<>>, returned |-> TRUE]

\* the keys of all_errors in the order a key-sorted JSON object lists them
SortedKeys == <<"graph", "imap_new", "imap_old">>

RECURSIVE ItemsInKeyOrder(_, _)
ItemsInKeyOrder(d, keys) ==
    IF keys = <<>> THEN <<>>
    ELSE SelectSeq(d, LAMBDA e : e.key = Head(keys)) \o ItemsInKeyOrder(d, Tail(keys))

\* jsonify serialises a dict with its keys sorted
jsonify_dict(d) == ItemsInKeyOrder(d, SortedKeys)

FailureResp(details) ==
    [success |-> FALSE, emails |-> <<>>, method |-> "", has_more |-> FALSE,
     error |-> "ALL_METHODS_FAILED", details |-> jsonify_dict(details), returned |-> TRUE]

\* the response when get_account_by_email finds no row
NotFoundResp ==
    [success |-> FALSE, emails |-> <<>>, method |-> "", has_more |-> FALSE,
     error |-> "ACCOUNT_NOT_FOUND", details |-> <<>>, returned |-> TRUE]

\* the step taken after an attempt: return on success, else record the error
\* under key and fall through; after the last backend return the failure
AfterAttempt(key, result, method, has_more) ==
    IF result.success
    THEN /\ l_resp' = SuccessResp(result.emails, method, has_more)
         /\ l_pc' = "done"
         /\ UNCHANGED all_errors
    ELSE LET errs == DictSet(all_errors, key, result.error) IN
         /\ all_errors' = errs
         /\ IF NextAttempt(l_pc) = "failed"
            THEN /\ l_resp' = FailureResp(errs)
                 /\ l_pc' = "done"
            ELSE /\ l_pc' = NextAttempt(l_pc)
                 /\ UNCHANGED l_resp

\* account 0 stands for an address with no row in accounts
ListStart(account, skip, top) ==
    /\ l_pc = "idle"
    /\ l_req' = [account |-> account, skip |-> skip, top |-> top]
    /\ all_errors' = <<>>
    /\ attempts' = <<>>
    /\ token_requests' = <<>>
    /\ results' = <<>>
    /\ IF account \in AccountIds
       THEN l_pc' = "graph" /\ l_resp' = NoResp
       ELSE l_pc' = "done" /\ l_resp' = NotFoundResp
    /\ UNCHANGED last_refresh_at

TryGraph(tok, res) ==
    /\ l_pc = "graph"
    /\ attempts' = Append(attempts, "graph")
    /\ token_requests' = Append(token_requests, [url |-> TOKEN_URL_GRAPH, res |-> tok])
    /\ LET result == get_emails_graph(tok, res, l_req.skip, l_req.top) IN
       /\ results' = Append(results, result)
       /\ AfterAttempt("graph", result, "Graph API", graph_has_more(result.emails, l_req.top))
       /\ last_refresh_at' = IF result.success
                             THEN [last_refresh_at EXCEPT ![l_req.account] = now]
                             ELSE last_refresh_at
    /\ UNCHANGED l_req

TryImapNew(tok, res) ==
    /\ l_pc = "imap_new"
    /\ attempts' = Append(attempts, "imap_new")
    /\ token_requests' = Append(token_requests, [url |-> TOKEN_URL_IMAP, res |-> tok])
    /\ LET result == get_emails_imap_with_server(tok, res, "inbox", l_req.skip, l_req.top) IN
       /\ results' = Append(results, result)
       /\ AfterAttempt("imap_new", result, "IMAP (New)", imap_has_more(result.emails, l_req.top))
    /\ UNCHANGED <<l_req, last_refresh_at>>

TryImapOld(tok, res) ==
    /\ l_pc = "imap_old"
    /\ attempts' = Append(attempts, "imap_old")
    /\ token_requests' = Append(token_requests, [url |-> TOKEN_URL_IMAP, res |-> tok])
    /\ LET result == get_emails_imap_with_server(tok, res, "inbox", l_req.skip, l_req.top) IN
       /\ results' = Append(results, result)
       /\ AfterAttempt("imap_old", result, "IMAP (Old)", imap_has_more(result.emails, l_req.top))
    /\ UNCHANGED <<l_req, last_refresh_at>>

ListReturn ==
    /\ l_pc = "done"
    /\ l_pc' = "idle"
    /\ UNCHANGED <<l_req, all_errors, attempts, token_requests, results, l_resp,
                   last_refresh_at>>

(***************************************************************************)
(* Login rate limiter                                                      *)
(***************************************************************************)
Sources == 1..NumSources
Slots == 1..NumReq
MaxNow == MaxTicks * TickUnit

NoLock == -1     \* the record has no 'locked_until' key

\* login_attempts has no key for the source
Absent == [present |-> FALSE, count |-> 0, last_attempt |-> 0, locked_until |-> NoLock]

Record(count, last_attempt, locked_until) ==
    [present |-> TRUE, count |-> count, last_attempt |-> last_attempt,
     locked_until |-> locked_until]

CheckResult(la, allowed, remaining) ==
    [attempts |-> la, allowed |-> allowed, remaining |-> remaining]

\* the same function with a denied check starting the lockout anew
check_rate_limit_relock(la, ip, current_time) ==
    LET attempt_data == la[ip] IN
    IF ~attempt_data.present THEN CheckResult(la, TRUE, None)
    ELSE IF attempt_data.locked_until # NoLock /\ current_time < attempt_data.locked_until
    THEN CheckResult([la EXCEPT ![ip].locked_until = current_time + LOCKOUT_DURATION],
                     FALSE, attempt_data.locked_until - current_time)
    ELSE IF current_time - attempt_data.last_attempt > ATTEMPT_WINDOW
    THEN CheckResult([la EXCEPT ![ip] = Record(0, current_time, NoLock)], TRUE, None)
    ELSE IF attempt_data.count >= MAX_LOGIN_ATTEMPTS
    THEN CheckResult([la EXCEPT ![ip].locked_until = current_time + LOCKOUT_DURATION],
                     FALSE, LOCKOUT_DURATION)
    ELSE CheckResult(la, TRUE, None)

\* the same function without the test of the window
check_rate_limit_no_window(la, ip, current_time) ==
    LET attempt_data == la[ip] IN
    IF ~attempt_data.present THEN CheckResult(la, TRUE, None)
    ELSE IF attempt_data.locked_until # NoLock /\ current_time < attempt_data.locked_until
    THEN CheckResult(la, FALSE, attempt_data.locked_until - current_time)
    ELSE IF attempt_data.count >= MAX_LOGIN_ATTEMPTS
    THEN CheckResult([la EXCEPT ![ip].locked_until = current_time + LOCKOUT_DURATION],
                     FALSE, LOCKOUT_DURATION)
    ELSE CheckResult(la, TRUE, None)
check_rate_limit(la, ip, current_time) ==
    LET attempt_data == la[ip] IN
    IF ~attempt_data.present THEN CheckResult(la, TRUE, None)
    ELSE IF attempt_data.locked_until # NoLock /\ current_time < attempt_data.locked_until
    THEN CheckResult(la, FALSE, attempt_data.locked_until - current_time)
    ELSE IF current_time - attempt_data.last_attempt > ATTEMPT_WINDOW
    THEN CheckResult([la EXCEPT ![ip] = Record(0, current_time, NoLock)], TRUE, None)
    ELSE IF attempt_data.count >= MAX_LOGIN_ATTEMPTS
    THEN CheckResult([la EXCEPT ![ip].locked_until = current_time + LOCKOUT_DURATION],
                     FALSE, LOCKOUT_DURATION)
    ELSE CheckResult(la, TRUE, None)

record_login_failure(la, ip, current_time) ==
    IF ~la[ip].present
    THEN [la EXCEPT ![ip] = Record(1, current_time, NoLock)]
    ELSE IF current_time - la[ip].last_attempt <= ATTEMPT_WINDOW
    THEN [la EXCEPT ![ip].count = @ + 1, ![ip].last_attempt = current_time]
    ELSE [la EXCEPT ![ip].count = 1, ![ip].last_attempt = current_time]

\* mutant: the counter is zeroed but the record, with its lockout, is kept
reset_login_attempts_keep(la, ip) ==
    IF la[ip].present THEN [la EXCEPT ![ip].count = 0] ELSE la

reset_login_attempts(la, ip) ==
    IF la[ip].present THEN [la EXCEPT ![ip] = Absent] ELSE la

NoLoginResp ==
    [ip |-> 0, step |-> "", allowed |-> TRUE, remaining |-> None, prev |-> Absent]

LoginResp(ip, step, allowed, remaining, prev) ==
    [ip |-> ip, step |-> step, allowed |-> allowed, remaining |-> remaining, prev |-> prev]

Idle == [pc |-> "idle", ip |-> 0]

\* login(), POST, handled without another login request interleaving:
\* the rate-limit check, then the password verification and its bookkeeping
Login(ip, password_ok) ==
    LET checked == check_rate_limit(login_attempts, ip, now) IN
    /\ \A r \in Slots : g_req[r] = Idle
    /\ IF ~checked.allowed
       THEN /\ login_attempts' = checked.attempts
            /\ g_resp' = LoginResp(ip, "denied", FALSE, checked.remaining, login_attempts[ip])
       ELSE IF password_ok
       THEN /\ login_attempts' = reset_login_attempts(checked.attempts, ip)
            /\ g_resp' = LoginResp(ip, "success", TRUE, None, login_attempts[ip])
       ELSE /\ login_attempts' = record_login_failure(checked.attempts, ip, now)
            /\ g_resp' = LoginResp(ip, "failure", TRUE, None, login_attempts[ip])
    /\ UNCHANGED <<now, g_req>>

\* the first half of login() in request slot r: check_rate_limit, and the 429
\* response when the source is not allowed
LoginCheck(r, ip) ==
    LET checked == check_rate_limit(login_attempts, ip, now) IN
    /\ g_req[r] = Idle
    /\ login_attempts' = checked.attempts
    /\ IF checked.allowed
       THEN /\ g_req' = [g_req EXCEPT ![r] = [pc |-> "checked", ip |-> ip]]
            /\ g_resp' = LoginResp(ip, "checked", TRUE, None, login_attempts[ip])
       ELSE /\ g_req' = g_req
            /\ g_resp' = LoginResp(ip, "denied", FALSE, checked.remaining, login_attempts[ip])
    /\ UNCHANGED now

\* the second half of login() in request slot r: verify_password, then
\* reset_login_attempts or record_login_failure
LoginVerify(r, password_ok) ==
    LET ip == g_req[r].ip IN
    /\ g_req[r].pc = "checked"
    /\ g_req' = [g_req EXCEPT ![r] = Idle]
    /\ IF password_ok
       THEN /\ login_attempts' = reset_login_attempts(login_attempts, ip)
            /\ g_resp' = LoginResp(ip, "success", TRUE, None, login_attempts[ip])
       ELSE /\ login_attempts' = record_login_failure(login_attempts, ip, now)
            /\ g_resp' = LoginResp(ip, "failure", TRUE, None, login_attempts[ip])
    /\ UNCHANGED now

\* time passes
Tick ==
    /\ now + TickUnit <= MaxNow
    /\ now' = now + TickUnit
    /\ UNCHANGED <<login_attempts, g_req, g_resp>>

InitGuard ==
    /\ now = 0
    /\ login_attempts = [ip \in Sources |-> Absent]
    /\ g_req = [r \in Slots |-> Idle]
    /\ g_resp = NoLoginResp

(***************************************************************************)
(* Credential vault: encrypt_data, decrypt_data                            *)
(***************************************************************************)
\* A string is a sequence of symbols.  "enc:" is the four-character tag as
\* one symbol; a Fernet token is the symbol of the IV it was made with
\* followed by the plaintext it carries; "x" is any other text.
FernetIVs == {"iv1", "iv2"}

Symbols == {"enc:", "x"} \cup FernetIVs

Strings == UNION { [1..n -> Symbols] : n \in 0..MaxLen }

\* what a call gives back: a returned value, or a raised exception with its
\* message (a string of one symbol)
Returned(value) == [raised |-> FALSE, value |-> value]
Raised(text) == [raised |-> TRUE, value |-> <<text>>]

\* data.startswith('enc:')
startswith_enc(data) == Len(data) >= 1 /\ data[1] = "enc:"

\* Fernet.encrypt: a fresh IV, then the authenticated ciphertext
cipher_encrypt(data, iv) == <<iv>> \o data

\* Fernet.decrypt: the plaintext of a well-formed token of this key,
\* InvalidToken for anything else
cipher_decrypt(token) ==
    IF Len(token) >= 1 /\ token[1] \in FernetIVs
    THEN Returned(SubSeq(token, 2, Len(token)))
    ELSE Raised("InvalidToken")

\* the same function without the already-encrypted shortcut
encrypt_data_always(data, iv) ==
    IF data = <<>> THEN data
    ELSE <<"enc:">> \o cipher_encrypt(data, iv)

encrypt_data(data, iv) ==
    IF data = <<>> THEN data
    ELSE IF startswith_enc(data) THEN data
    ELSE <<"enc:">> \o cipher_encrypt(data, iv)

\* the same function handing the argument back when Fernet rejects it
decrypt_data_keep(encrypted_data) ==
    IF encrypted_data = <<>> THEN Returned(encrypted_data)
    ELSE IF ~startswith_enc(encrypted_data) THEN Returned(encrypted_data)
    ELSE LET decrypted == cipher_decrypt(SubSeq(encrypted_data, 2, Len(encrypted_data)))
         IN  IF decrypted.raised THEN Returned(encrypted_data)
             ELSE decrypted

decrypt_data(encrypted_data) ==
    IF encrypted_data = <<>> THEN Returned(encrypted_data)
    ELSE IF ~startswith_enc(encrypted_data) THEN Returned(encrypted_data)
    ELSE LET decrypted == cipher_decrypt(SubSeq(encrypted_data, 2, Len(encrypted_data)))
         IN  IF decrypted.raised THEN Raised("Failed to decrypt data")
             ELSE decrypted

\* a call encrypt_data(v_in)
VaultEncrypt(iv) ==
    /\ v_pc = "input"
    /\ v_out' = Returned(encrypt_data(v_in, iv))
    /\ v_pc' = "encrypted"
    /\ UNCHANGED <<v_in, v_out2>>

\* a call decrypt_data(v_in)
VaultDecrypt ==
    /\ v_pc = "input"
    /\ v_out' = decrypt_data(v_in)
    /\ v_pc' = "decrypted"
    /\ UNCHANGED <<v_in, v_out2>>

\* encrypt_data applied to what encrypt_data returned
VaultEncryptAgain(iv) ==
    /\ v_pc = "encrypted"
    /\ v_out2' = Returned(encrypt_data(v_out.value, iv))
    /\ v_pc' = "encrypted_twice"
    /\ UNCHANGED <<v_in, v_out>>

\* decrypt_data applied to what encrypt_data returned
VaultDecryptBack ==
    /\ v_pc = "encrypted"
    /\ v_out2' = decrypt_data(v_out.value)
    /\ v_pc' = "round_trip"
    /\ UNCHANGED <<v_in, v_out>>

\* no call in progress
InitVaultIdle ==
    /\ v_pc = "idle"
    /\ v_in = <<>>
    /\ v_out = Returned(<<>>)
    /\ v_out2 = Returned(<<>>)

\* any string as the argument
InitVault ==
    /\ v_pc = "input"
    /\ v_in \in Strings
    /\ v_out = Returned(<<>>)
    /\ v_out2 = Returned(<<>>)

(***************************************************************************)
(* Streaming batch validation: generate() of api_refresh_all_accounts      *)
(* (refresh_type manual) and of api_trigger_scheduled_refresh (scheduled)  *)
(***************************************************************************)
\* the refresh token the provider issued
RefreshSecret == <<"x">>

\* what the column accounts.refresh_token can hold: the token as stored
\* before encryption was introduced, the token encrypted by encrypt_data, and a
\* tagged value that Fernet rejects (SECRET_KEY changed, or corrupted data)
StoredTokens == {RefreshSecret, <<"enc:", "iv1">> \o RefreshSecret, <<"enc:", "x">>}

AccountRows == [id : AccountIds, refresh_token : StoredTokens]

\* the rows SELECTed from accounts WHERE status = 'active', in row order
AccountLists ==
    UNION { [1..n -> AccountRows] : n \in 0..MaxAccounts }

ActiveAccountLists ==
    { l \in AccountLists : \A i, j \in 1..Len(l) : i < j => l[i].id < l[j].id }

\* the setting refresh_delay_seconds (0..60, 5 when never set)
DelayChoices == {0, DEFAULT_DELAY_SECONDS}

\* the setting refresh_interval_days (1..90)
IntervalChoices == 1..MaxDays

\* an error message: a fixed prefix put by the handler and the text of the
\* exception or of the provider's answer
Msg(prefix, text) == [prefix |-> prefix, text |-> text]

NoMsg == Msg("", <<>>)

\* error_description texts of a provider answer: one without a secret and
\* one that echoes the credential
ErrorTexts == {<<"invalid_grant">>, <<"refresh_token", "=", "a">>}

\* the outcomes of the POST of test_refresh_token: status 200, another status
\* with its error_description (json: res.json() parses the body), an
\* exception of requests with its text
RefreshResponses ==
    {[exc |-> FALSE, status |-> 200, json |-> TRUE, text |-> <<>>]}
    \cup [exc : {FALSE}, status : {400}, json : {TRUE}, text : ErrorTexts]
    \cup {[exc |-> TRUE, status |-> 0, json |-> FALSE, text |-> <<"timed", " ", "out">>]}

Event(type, current, total, seconds, ok, failed, list) ==
    [type |-> type, current |-> current, total |-> total, seconds |-> seconds,
     success_count |-> ok, failed_count |-> failed, failed_list |-> list]

StartEvent(total, delay) == Event("start", 0, total, delay, 0, 0, <<>>)
ProgressEvent(current, total, ok, failed) == Event("progress", current, total, 0, ok, failed, <<>>)
DelayEvent(seconds) == Event("delay", 0, 0, seconds, 0, 0, <<>>)
CompleteEvent(total, ok, failed, list) == Event("complete", 0, total, 0, ok, failed, list)

LogEntry(id, type, status, msg) ==
    [account_id |-> id, refresh_type |-> type, status |-> status, error_message |-> msg,
     created_at |-> now]

\* the POST of test_refresh_token: the account and the refresh_token sent
RefreshRequest(id, stored, refresh_token) ==
    [url |-> TOKEN_URL_GRAPH, account_id |-> id, stored |-> stored,
     refresh_token |-> refresh_token]

\* the decryption failure reported the way a provider rejection is
DecryptErrorMsgAsRejection(d) == Msg("", <<"invalid_grant">>)

\* error_msg of the except branch around decrypt_data
DecryptErrorMsg(d) == Msg("decrypt_failed", d.value)

FailedItem(id, msg) == [id |-> id, error |-> msg]

\* test_refresh_token: (success, error_msg) for a token endpoint answer
test_refresh_token(res) ==
    IF res.exc THEN [success |-> FALSE, error_msg |-> Msg("request_exception", res.text)]
    ELSE IF res.status = 200 THEN [success |-> TRUE, error_msg |-> NoMsg]
    ELSE IF ~res.json
    THEN [success |-> FALSE, error_msg |-> Msg("request_exception", JSON_ERROR_TEXT)]
    ELSE [success |-> FALSE, error_msg |-> Msg("", res.text)]

total == Len(accounts)

\* the generator up to its first yield: settings, retention sweep, SELECT of
\* the active accounts, the counters, the start event
BatchStart(accs, delay, type) ==
    /\ b_pc = "idle"
    /\ accounts' = accs
    /\ delay_seconds' = delay
    /\ refresh_type' = type
    /\ success_count' = 0
    /\ failed_count' = 0
    /\ failed_list' = <<>>
    /\ index' = 1
    /\ events' = <<StartEvent(Len(accs), delay)>>
    /\ b_pc' = "loop"
    /\ UNCHANGED <<refresh_logs, refresh_requests, last_refresh_at>>

\* the decryption failure ending the run instead of the iteration
BatchDecryptFailAbort ==
    /\ b_pc = "loop"
    /\ index <= total
    /\ decrypt_data(accounts[index].refresh_token).raised
    /\ b_pc' = "aborted"
    /\ UNCHANGED <<accounts, delay_seconds, refresh_type, success_count, failed_count,
                   failed_list, index, events, refresh_logs, refresh_requests,
                   last_refresh_at>>

\* loop body when decrypt_data raises: count, list, log, continue
BatchDecryptFail ==
    LET d == decrypt_data(accounts[index].refresh_token)
        error_msg == DecryptErrorMsg(d)
    IN
    /\ b_pc = "loop"
    /\ index <= total
    /\ d.raised
    /\ failed_count' = failed_count + 1
    /\ failed_list' = Append(failed_list, FailedItem(accounts[index].id, error_msg))
    /\ refresh_logs' = Append(refresh_logs,
           LogEntry(accounts[index].id, refresh_type, "failed", error_msg))
    /\ index' = index + 1
    /\ UNCHANGED <<b_pc, accounts, delay_seconds, refresh_type, success_count, events,
                   refresh_requests, last_refresh_at>>

\* loop body when decrypt_data returns: the progress event
BatchProgress ==
    /\ b_pc = "loop"
    /\ index <= total
    /\ ~decrypt_data(accounts[index].refresh_token).raised
    /\ events' = Append(events, ProgressEvent(index, total, success_count, failed_count))
    /\ b_pc' = "test"
    /\ UNCHANGED <<accounts, delay_seconds, refresh_type, success_count, failed_count,
                   failed_list, index, refresh_logs, refresh_requests, last_refresh_at>>

\* the delay event is due after the account at position i
DelayDue(i, n, delay) == i < n /\ delay > 0

\* loop body after the progress event: test_refresh_token, the log row, the
\* timestamp, the counters, and the delay event when one is due
BatchTest(res) ==
    LET r == test_refresh_token(res)
        id == accounts[index].id
        refresh_token == decrypt_data(accounts[index].refresh_token).value
    IN
    /\ b_pc = "test"
    /\ refresh_requests' = Append(refresh_requests,
           RefreshRequest(id, accounts[index].refresh_token, refresh_token))
    /\ refresh_logs' = Append(refresh_logs,
           LogEntry(id, refresh_type, IF r.success THEN "success" ELSE "failed", r.error_msg))
    /\ last_refresh_at' = IF r.success THEN [last_refresh_at EXCEPT ![id] = now]
                          ELSE last_refresh_at
    /\ IF r.success
       THEN /\ success_count' = success_count + 1
            /\ UNCHANGED <<failed_count, failed_list>>
       ELSE /\ failed_count' = failed_count + 1
            /\ failed_list' = Append(failed_list, FailedItem(id, r.error_msg))
            /\ UNCHANGED success_count
    /\ IF DelayDue(index, total, delay_seconds)
       THEN /\ events' = Append(events, DelayEvent(delay_seconds))
            /\ b_pc' = "sleep"
            /\ UNCHANGED index
       ELSE /\ index' = index + 1
            /\ b_pc' = "loop"
            /\ UNCHANGED events
    /\ UNCHANGED <<accounts, delay_seconds, refresh_type>>

\* time.sleep(delay_seconds) after the delay event
BatchSleep ==
    /\ b_pc = "sleep"
    /\ index' = index + 1
    /\ b_pc' = "loop"
    /\ UNCHANGED <<accounts, delay_seconds, refresh_type, success_count, failed_count,
                   failed_list, events, refresh_logs, refresh_requests, last_refresh_at>>

\* after the loop: the complete event
BatchComplete ==
    /\ b_pc = "loop"
    /\ index > total
    /\ events' = Append(events, CompleteEvent(total, success_count, failed_count, failed_list))
    /\ b_pc' = "done"
    /\ UNCHANGED <<accounts, delay_seconds, refresh_type, success_count, failed_count,
                   failed_list, index, refresh_logs, refresh_requests, last_refresh_at>>

InitBatch ==
    /\ b_pc = "idle"
    /\ accounts = <<>>
    /\ delay_seconds = DEFAULT_DELAY_SECONDS
    /\ refresh_type = "manual"
    /\ success_count = 0
    /\ failed_count = 0
    /\ failed_list = <<>>
    /\ index = 1
    /\ events = <<>>
    /\ refresh_logs = <<>>
    /\ refresh_requests = <<>>

(***************************************************************************)
(* The other validation paths: api_refresh_account (one account),          *)
(* api_refresh_failed_accounts (retry batch), api_trigger_scheduled_refresh *)
(* (the interval check in front of the scheduled stream) and               *)
(* scheduled_refresh_task with trigger_refresh_internal (timer-driven)     *)
(***************************************************************************)
\* log_refresh_result: the log row, and the timestamp when status is success
log_refresh_result_stamp_always(id, type, status, msg) ==
    /\ refresh_logs' = Append(refresh_logs, LogEntry(id, type, status, msg))
    /\ last_refresh_at' = [last_refresh_at EXCEPT ![id] = now]

log_refresh_result(id, type, status, msg) ==
    /\ refresh_logs' = Append(refresh_logs, LogEntry(id, type, status, msg))
    /\ last_refresh_at' = IF status = "success" THEN [last_refresh_at EXCEPT ![id] = now]
                          ELSE last_refresh_at

StatusOf(r) == IF r.success THEN "success" ELSE "failed"

\* api_refresh_account for an existing account row: decrypt, test, log
api_refresh_account(row, res) ==
    LET d == decrypt_data(row.refresh_token)
        r == test_refresh_token(res)
    IN
    /\ IF d.raised
       THEN /\ log_refresh_result(row.id, "manual", "failed", DecryptErrorMsg(d))
            /\ UNCHANGED refresh_requests
       ELSE /\ refresh_requests' = Append(refresh_requests,
                   RefreshRequest(row.id, row.refresh_token, d.value))
            /\ log_refresh_result(row.id, "manual", StatusOf(r), r.error_msg)
    /\ UNCHANGED <<b_pc, accounts, delay_seconds, refresh_type, success_count,
                   failed_count, failed_list, index, events>>

\* the log rows of an account that carry its newest created_at
LatestEntries(id) ==
    {i \in 1..Len(refresh_logs) :
        /\ refresh_logs[i].account_id = id
        /\ \A j \in 1..Len(refresh_logs) :
              refresh_logs[j].account_id = id =>
                 refresh_logs[j].created_at <= refresh_logs[i].created_at}

\* the accounts the retry query selects: a newest log row has status failed
FailedLatest ==
    {id \in AccountIds : \E i \in LatestEntries(id) : refresh_logs[i].status = "failed"}

\* api_refresh_failed_accounts up to its loop
RetryStart(accs) ==
    /\ b_pc = "idle"
    /\ {accs[i].id : i \in 1..Len(accs)} = FailedLatest
    /\ accounts' = accs
    /\ refresh_type' = "retry"
    /\ success_count' = 0
    /\ failed_count' = 0
    /\ failed_list' = <<>>
    /\ index' = 1
    /\ b_pc' = "retry"
    /\ UNCHANGED <<delay_seconds, events, refresh_logs, refresh_requests, last_refresh_at>>

\* one iteration of the retry loop
RetryStep(res) ==
    LET row == accounts[index]
        d == decrypt_data(row.refresh_token)
        r == test_refresh_token(res)
    IN
    /\ b_pc = "retry"
    /\ index <= total
    /\ IF d.raised
       THEN /\ failed_count' = failed_count + 1
            /\ failed_list' = Append(failed_list, FailedItem(row.id, DecryptErrorMsg(d)))
            /\ log_refresh_result(row.id, "retry", "failed", DecryptErrorMsg(d))
            /\ UNCHANGED <<success_count, refresh_requests>>
       ELSE /\ refresh_requests' = Append(refresh_requests,
                   RefreshRequest(row.id, row.refresh_token, d.value))
            /\ log_refresh_result(row.id, "retry", StatusOf(r), r.error_msg)
            /\ IF r.success
               THEN /\ success_count' = success_count + 1
                    /\ UNCHANGED <<failed_count, failed_list>>
               ELSE /\ failed_count' = failed_count + 1
                    /\ failed_list' = Append(failed_list, FailedItem(row.id, r.error_msg))
                    /\ UNCHANGED success_count
    /\ index' = index + 1
    /\ UNCHANGED <<b_pc, accounts, delay_seconds, refresh_type, events>>

\* the JSON response after the loop
RetryReturn ==
    /\ b_pc = "retry"
    /\ index > total
    /\ b_pc' = "retry_done"
    /\ UNCHANGED <<accounts, delay_seconds, refresh_type, success_count, failed_count,
                   failed_list, index, events, refresh_logs, refresh_requests,
                   last_refresh_at>>

\* the times of the scheduled-type log rows
ScheduledTimes ==
    {refresh_logs[i].created_at :
        i \in {j \in 1..Len(refresh_logs) : refresh_logs[j].refresh_type = "scheduled"}}

\* SELECT MAX(created_at) ... WHERE refresh_type = 'scheduled'
last_refresh ==
    IF ScheduledTimes = {} THEN None
    ELSE CHOOSE t \in ScheduledTimes : \A u \in ScheduledTimes : u <= t

\* datetime.now() < last_refresh_time + timedelta(days=refresh_interval_days)
TooEarly(refresh_interval_days) ==
    last_refresh # None /\ now < last_refresh + refresh_interval_days * DAY

\* what a scheduled entry point was called with, whether the interval since
\* the newest scheduled-type log row had not yet elapsed, and whether it ran
NoDecision ==
    [path |-> "none", force |-> FALSE, enable_scheduled |-> FALSE, use_cron |-> FALSE,
     too_early |-> FALSE, executed |-> FALSE]

Decision(path, force, enable_scheduled, use_cron, refresh_interval_days, executed) ==
    [path |-> path, force |-> force, enable_scheduled |-> enable_scheduled,
     use_cron |-> use_cron, too_early |-> TooEarly(refresh_interval_days),
     executed |-> executed]

\* api_trigger_scheduled_refresh: the interval check; the stream when it passes
api_trigger_scheduled_refresh(force, refresh_interval_days, accs, delay) ==
    LET skip == ~force /\ TooEarly(refresh_interval_days)
    IN
    /\ b_pc = "idle"
    /\ sched' = Decision("http", force, TRUE, FALSE, refresh_interval_days, ~skip)
    /\ IF skip
       THEN UNCHANGED <<batchVars, dbVars>>
       ELSE BatchStart(accs, delay, "scheduled")

\* the consumer of the stream has gone: the server closes the generator at the
\* yield it is suspended in, and only the finally clause runs
BatchClose ==
    /\ \/ b_pc = "loop" /\ index = 1
       \/ b_pc \in {"test", "sleep"}
    /\ b_pc' = "closed"
    /\ UNCHANGED <<accounts, delay_seconds, refresh_type, success_count, failed_count,
                   failed_list, index, events, refresh_logs, refresh_requests,
                   last_refresh_at>>

\* scheduled_refresh_task: the settings, the interval check unless the cron
\* schedule is used, and trigger_refresh_internal up to its loop
scheduled_refresh_task(enable_scheduled, use_cron, refresh_interval_days, accs, delay) ==
    LET run == /\ enable_scheduled
               /\ use_cron \/ ~TooEarly(refresh_interval_days)
    IN
    /\ t_pc = "idle"
    /\ sched' = Decision("timer", FALSE, enable_scheduled, use_cron,
                         refresh_interval_days, run)
    /\ IF run
       THEN /\ t_accounts' = accs
            /\ t_delay' = delay
            /\ t_index' = 1
            /\ t_pc' = "loop"
       ELSE UNCHANGED <<t_pc, t_accounts, t_delay, t_index>>

\* one iteration of the loop of trigger_refresh_internal up to its sleep: the
\* stored refresh_token goes to test_refresh_token as it is
TimerStep(res) ==
    LET row == t_accounts[t_index]
        r == test_refresh_token(res)
    IN
    /\ t_pc = "loop"
    /\ t_index <= Len(t_accounts)
    /\ refresh_requests' = Append(refresh_requests,
           RefreshRequest(row.id, row.refresh_token, row.refresh_token))
    /\ refresh_logs' = Append(refresh_logs,
           LogEntry(row.id, "scheduled", StatusOf(r), r.error_msg))
    /\ last_refresh_at' = IF r.success THEN [last_refresh_at EXCEPT ![row.id] = now]
                          ELSE last_refresh_at
    /\ IF DelayDue(t_index, Len(t_accounts), t_delay)
       THEN t_pc' = "sleep" /\ UNCHANGED t_index
       ELSE t_index' = t_index + 1 /\ UNCHANGED t_pc
    /\ UNCHANGED <<t_accounts, t_delay, sched>>
    /\ UNCHANGED <<b_pc, accounts, delay_seconds, refresh_type, success_count,
                   failed_count, failed_list, index, events>>

\* time.sleep(delay_seconds) at the end of the iteration
TimerSleep ==
    /\ t_pc = "sleep"
    /\ t_index' = t_index + 1
    /\ t_pc' = "loop"
    /\ UNCHANGED <<t_accounts, t_delay, sched>>

\* trigger_refresh_internal returns
TimerEnd ==
    /\ t_pc = "loop"
    /\ t_index > Len(t_accounts)
    /\ t_pc' = "idle"
    /\ UNCHANGED <<t_accounts, t_delay, t_index, sched>>

\* a day passes (the retention sweep of the runs, which deletes log rows older
\* than six months, removes nothing within MaxDays)
DayPasses ==
    /\ now + DAY <= MaxDays * DAY
    /\ now' = now + DAY
    /\ UNCHANGED <<login_attempts, g_req, g_resp>>

InitTimer ==
    /\ t_pc = "idle"
    /\ t_accounts = <<>>
    /\ t_delay = DEFAULT_DELAY_SECONDS
    /\ t_index = 1
    /\ sched = NoDecision

(***************************************************************************)
(* Credential store: the table accounts (id, email, password,              *)
(* refresh_token; the columns client_id, group_id, remark and status hold  *)
(* no secret and are left out), migrate_sensitive_data, add_account,       *)
(* update_account, the bulk import of api_add_account, the deletes and the *)
(* reads load_accounts, get_account_by_email, get_account_by_id            *)
(***************************************************************************)
Emails == {"a@x", "b@x"}

\* the ids AUTOINCREMENT hands out
StoreIds == 1..MaxRows

\* the passwords a user gives: none or one; the refresh tokens: an ordinary
\* one, and one that happens to begin with the characters enc:
Passwords == {<<>>, <<"x">>}
RefreshTokens == {RefreshSecret, <<"enc:", "x">>}

\* is_encrypted
is_encrypted(data) == data # <<>> /\ startswith_enc(data)

AccountRecord(id, email, password, refresh_token) ==
    [id |-> id, email |-> email, password |-> password, refresh_token |-> refresh_token]

Secrets(password, refresh_token) == [password |-> password, refresh_token |-> refresh_token]

NoSecrets == Secrets(<<>>, <<>>)

\* what a write gives back: its return value, the table and the AUTOINCREMENT
\* counter after it, and the secrets each account was last written with
Written(ok, rows, seq, given) == [ok |-> ok, rows |-> rows, seq |-> seq, given |-> given]

\* the positions of the rows that satisfy a WHERE clause on one column
RowsWith(rows, column, value) == {i \in 1..Len(rows) : rows[i][column] = value}

\* SQLite enforces FOREIGN KEY clauses only on a connection that has executed
\* PRAGMA foreign_keys = ON; get_db and the other connections never do
foreign_keys == FALSE

\* encrypt_data(value) if value else value
encrypt_if_given(value, iv) == IF value # <<>> THEN encrypt_data(value, iv) ELSE value

\* add_account: INSERT of the encrypted fields; the UNIQUE constraint on email
\* raises IntegrityError and the function returns False
add_account(rows, seq, given, email_addr, password, refresh_token, iv) ==
    IF RowsWith(rows, "email", email_addr) # {}
    THEN Written(FALSE, rows, seq, given)
    ELSE Written(TRUE,
                 Append(rows, AccountRecord(seq + 1, email_addr,
                                            encrypt_if_given(password, iv),
                                            encrypt_if_given(refresh_token, iv))),
                 seq + 1,
                 [given EXCEPT ![seq + 1] = Secrets(password, refresh_token)])

\* the same without the UNIQUE constraint on email
update_account_any_email(rows, seq, given, account_id, email_addr, password, refresh_token, iv) ==
    IF RowsWith(rows, "id", account_id) = {}
    THEN Written(TRUE, rows, seq, given)
    ELSE Written(TRUE,
                 [i \in 1..Len(rows) |->
                     IF rows[i].id = account_id
                     THEN AccountRecord(account_id, email_addr,
                                        encrypt_if_given(password, iv),
                                        encrypt_if_given(refresh_token, iv))
                     ELSE rows[i]],
                 seq,
                 [given EXCEPT ![account_id] = Secrets(password, refresh_token)])

\* update_account: UPDATE ... WHERE id = ?; no row with that id updates
\* nothing and returns True, a UNIQUE violation returns False
update_account(rows, seq, given, account_id, email_addr, password, refresh_token, iv) ==
    IF RowsWith(rows, "id", account_id) = {}
    THEN Written(TRUE, rows, seq, given)
    ELSE IF \E i \in RowsWith(rows, "email", email_addr) : rows[i].id # account_id
    THEN Written(FALSE, rows, seq, given)
    ELSE Written(TRUE,
                 [i \in 1..Len(rows) |->
                     IF rows[i].id = account_id
                     THEN AccountRecord(account_id, email_addr,
                                        encrypt_if_given(password, iv),
                                        encrypt_if_given(refresh_token, iv))
                     ELSE rows[i]],
                 seq,
                 [given EXCEPT ![account_id] = Secrets(password, refresh_token)])

\* a parsed line of the import text
ImportLine(email, password, refresh_token) ==
    [email |-> email, password |-> password, refresh_token |-> refresh_token]

RECURSIVE import_lines(_, _, _, _, _, _)
\* the loop of api_add_account: add_account for each line, counting the
\* lines added
import_lines(lines, rows, seq, given, iv, added) ==
    IF lines = <<>> THEN [added |-> added, rows |-> rows, seq |-> seq, given |-> given]
    ELSE LET w == add_account(rows, seq, given, Head(lines).email, Head(lines).password,
                              Head(lines).refresh_token, iv)
         IN  import_lines(Tail(lines), w.rows, w.seq, w.given, iv,
                          IF w.ok THEN added + 1 ELSE added)

\* a field of a fetched row as the reads hand it on: decrypt_data, and the
\* stored value when decrypt_data raises
decrypt_or_keep(value) ==
    IF value = <<>> THEN value
    ELSE IF decrypt_data(value).raised THEN value
    ELSE decrypt_data(value).value

\* dict(row) with the sensitive fields decrypted
decrypted_account(row) ==
    AccountRecord(row.id, row.email, decrypt_or_keep(row.password),
                  decrypt_or_keep(row.refresh_token))

\* the account id and the addresses a store operation was called with
Request(id, emails) == [id |-> id, emails |-> emails]

\* the reply of a store operation with its request: its return value (for a
\* read, whether it returned normally), the accounts a read returns, the
\* lines an import added
NoReply ==
    [op |-> "none", request |-> Request(0, <<>>), ok |-> TRUE, accounts |-> <<>>, added |-> 0]

Reply(op, request, ok, accs, added) ==
    [op |-> op, request |-> request, ok |-> ok, accounts |-> accs, added |-> added]

\* migrate_sensitive_data at start-up: every untagged non-empty field is
\* encrypted
migrate_sensitive_data(iv) ==
    /\ s_pc = "boot"
    /\ db_accounts' = [i \in 1..Len(db_accounts) |->
           AccountRecord(db_accounts[i].id, db_accounts[i].email,
               IF db_accounts[i].password # <<>> /\ ~is_encrypted(db_accounts[i].password)
               THEN encrypt_data(db_accounts[i].password, iv)
               ELSE db_accounts[i].password,
               IF db_accounts[i].refresh_token # <<>> /\ ~is_encrypted(db_accounts[i].refresh_token)
               THEN encrypt_data(db_accounts[i].refresh_token, iv)
               ELSE db_accounts[i].refresh_token)]
    /\ s_pc' = "up"
    /\ s_resp' = Reply("migrate_sensitive_data", Request(0, <<>>), TRUE, <<>>, 0)
    /\ UNCHANGED <<db_seq, db_secrets>>

\* api_add_account with the lines of account_string
api_add_account(lines, iv) ==
    LET r == import_lines(lines, db_accounts, db_seq, db_secrets, iv, 0) IN
    /\ s_pc = "up"
    /\ db_accounts' = r.rows
    /\ db_seq' = r.seq
    /\ db_secrets' = r.given
    /\ s_resp' = Reply("api_add_account",
                       Request(0, [k \in 1..Len(lines) |-> lines[k].email]),
                       r.added > 0, <<>>, r.added)
    /\ UNCHANGED s_pc

\* api_update_account with a full record (email, client_id and refresh_token
\* given)
api_update_account(account_id, email_addr, password, refresh_token, iv) ==
    LET w == update_account(db_accounts, db_seq, db_secrets, account_id, email_addr,
                            password, refresh_token, iv)
    IN
    /\ s_pc = "up"
    /\ db_accounts' = w.rows
    /\ db_seq' = w.seq
    /\ db_secrets' = w.given
    /\ s_resp' = Reply("api_update_account", Request(account_id, <<email_addr>>),
                       w.ok, <<>>, 0)
    /\ UNCHANGED s_pc

\* the rows left by DELETE FROM accounts WHERE column = value, and the log
\* rows left with them
DeleteWhere(op, request, column, value) ==
    LET gone == {db_accounts[i].id : i \in RowsWith(db_accounts, column, value)} IN
    /\ s_pc = "up"
    /\ db_accounts' = SelectSeq(db_accounts, LAMBDA row : row.id \notin gone)
    /\ refresh_logs' = IF foreign_keys
                       THEN SelectSeq(refresh_logs, LAMBDA entry : entry.account_id \notin gone)
                       ELSE refresh_logs
    /\ last_refresh_at' = [id \in AccountIds |->
                              IF id \in gone THEN None ELSE last_refresh_at[id]]
    /\ s_resp' = Reply(op, request, TRUE, <<>>, 0)
    /\ UNCHANGED <<s_pc, db_seq, db_secrets>>

delete_account_by_id(account_id) ==
    DeleteWhere("delete_account_by_id", Request(account_id, <<>>), "id", account_id)

delete_account_by_email(email_addr) ==
    DeleteWhere("delete_account_by_email", Request(0, <<email_addr>>), "email", email_addr)

\* the rows a read has fetched, as it returns them
ReadRows(op, request, fetched) ==
    /\ s_pc = "up"
    /\ s_resp' = Reply(op, request, TRUE,
                       [i \in 1..Len(fetched) |-> decrypted_account(fetched[i])], 0)
    /\ UNCHANGED <<s_pc, db_accounts, db_seq, db_secrets>>

load_accounts == ReadRows("load_accounts", Request(0, <<>>), db_accounts)

get_account_by_email(email_addr) ==
    ReadRows("get_account_by_email", Request(0, <<email_addr>>),
             SelectSeq(db_accounts, LAMBDA row : row.email = email_addr))

get_account_by_id(account_id) ==
    ReadRows("get_account_by_id", Request(account_id, <<>>),
             SelectSeq(db_accounts, LAMBDA row : row.id = account_id))

\* api_refresh_account for the stored account at position i
StoreValidate(i, res) ==
    /\ s_pc = "up"
    /\ i \in 1..Len(db_accounts)
    /\ api_refresh_account([id |-> db_accounts[i].id,
                            refresh_token |-> db_accounts[i].refresh_token], res)
    /\ s_resp' = Reply("api_refresh_account", Request(db_accounts[i].id, <<>>), TRUE, <<>>, 0)
    /\ UNCHANGED <<s_pc, db_accounts, db_seq, db_secrets>>

\* the store of a fresh installation, after init_db
InitStore ==
    /\ s_pc = "up"
    /\ db_accounts = <<>>
    /\ db_seq = 0
    /\ db_secrets = [id \in AccountIds |-> NoSecrets]
    /\ s_resp = NoReply

\* what a field written by an earlier run of the program can hold
StoredPasswords == {<<>>, <<"x">>}

\* the secret a stored field was made from
SecretOf(stored) == IF stored = <<>> THEN <<>> ELSE RefreshSecret

\* the database file found at start-up: no account, or one written by an
\* earlier run (before encryption was introduced, or under this or another
\* SECRET_KEY), and migrate_sensitive_data about to run
InitStoreBoot ==
    /\ s_pc = "boot"
    /\ \/ db_accounts = <<>>
       \/ \E password \in StoredPasswords, refresh_token \in StoredTokens :
             db_accounts = <<AccountRecord(1, "a@x", password, refresh_token)>>
    /\ db_seq = Len(db_accounts)
    /\ db_secrets = [id \in AccountIds |->
          IF id <= Len(db_accounts)
          THEN Secrets(SecretOf(db_accounts[id].password),
                       SecretOf(db_accounts[id].refresh_token))
          ELSE NoSecrets]
    /\ s_resp = NoReply

(***************************************************************************)
(* Message deletion and message detail: delete_emails_graph,               *)
(* delete_emails_imap, api_delete_emails, get_email_detail_graph,          *)
(* get_email_detail_imap, api_get_email_detail                             *)
(***************************************************************************)
MessageIds == 1..MaxTop

\* the ids of a request: one or more distinct message ids
MessageIdLists ==
    { l \in UNION { [1..n -> MessageIds] : n \in 1..MaxTop } :
        \A i, j \in 1..Len(l) : i # j => l[i] # l[j] }

\* what POST /$batch does for the requests of a handler: an exception of
\* requests, a status other than 200, or 200 with one response per request
BatchOutcomes == {"exception", "http_error", "ok"}

\* a token from get_access_token_graph / get_access_token_imap: None unless the
\* _result function succeeds
get_access_token_graph(tok) == get_access_token_graph_result(tok).success
get_access_token_imap(tok) == get_access_token_imap_result(tok).success

\* slices that overlap by one id
batches_overlap(message_ids) ==
    [k \in 1..((Len(message_ids) + BATCH_SIZE - 1) \div BATCH_SIZE) |->
        SubSeq(message_ids, (k - 1) * BATCH_SIZE + 1,
               Min(k * BATCH_SIZE + 1, Len(message_ids)))]

\* range(0, len(message_ids), BATCH_SIZE) and message_ids[i:i + BATCH_SIZE]:
\* the batches of the loop, in its order
batches(message_ids) ==
    [k \in 1..((Len(message_ids) + BATCH_SIZE - 1) \div BATCH_SIZE) |->
        SubSeq(message_ids, (k - 1) * BATCH_SIZE + 1, Min(k * BATCH_SIZE, Len(message_ids)))]

\* one entry of responses in the body of a 200 answer of POST /$batch
SubResponse(id, status) == [id |-> id, status |-> status]

\* what POST /$batch does for one batch: an exception of requests, a status
\* other than 200, or 200 with the entries of responses
BatchAnswer(kind, responses) == [kind |-> kind, responses |-> responses]

\* the counters and the labels of errors
Tally(ok, failed, errors) == [success_count |-> ok, failed_count |-> failed, errors |-> errors]

\* batch[int(res['id'])] does not raise
ValidIndex(id, batch) == -Len(batch) <= id /\ id < Len(batch)

\* the entries of responses that count as deleted
Deleted(responses) == {i \in 1..Len(responses) : responses[i].status \in {200, 204}}

\* the entries of responses at which the lookup of the message id raises
Raising(responses, batch) ==
    {i \in 1..Len(responses) :
        i \notin Deleted(responses) /\ ~ValidIndex(responses[i].id, batch)}

\* the entries the loop over responses gets to: all of them, or those up to
\* the first at which the lookup raises
Scanned(responses, batch) ==
    IF Raising(responses, batch) = {} THEN SubSeq(responses, 1, Len(responses))
    ELSE SubSeq(responses, 1, leftmost(Raising(responses, batch)))

\* for res in results (the responses of the body): a status of 200 or 204
\* counts as deleted, any other as failed; when the id of a failed entry is
\* no index of the batch the lookup raises and the except branch counts the
\* whole batch as failed
count_responses(responses, batch, tally) ==
    Tally(tally.success_count + Cardinality(Deleted(Scanned(responses, batch))),
          tally.failed_count
              + (Len(Scanned(responses, batch)) - Cardinality(Deleted(Scanned(responses, batch))))
              + (IF Raising(responses, batch) = {} THEN 0 ELSE Len(batch)),
          tally.errors
              \o [i \in 1..(Len(Scanned(responses, batch))
                               - Cardinality(Deleted(Scanned(responses, batch)))
                               - Cardinality(Raising(Scanned(responses, batch), batch))) |->
                     "status"]
              \o (IF Raising(responses, batch) = {} THEN <<>> ELSE <<"network_error">>))

\* the body of the loop for one batch and the answer to its request
count_batch(answer, batch, tally) ==
    IF answer.kind = "exception"
    THEN Tally(tally.success_count, tally.failed_count + Len(batch),
               Append(tally.errors, "network_error"))
    ELSE IF answer.kind = "http_error"
    THEN Tally(tally.success_count, tally.failed_count + Len(batch),
               Append(tally.errors, "batch_failed"))
    ELSE count_responses(answer.responses, batch, tally)

RECURSIVE delete_loop(_, _, _, _)
\* the loop over the batches from the k-th on, answers[k] the answer to the
\* k-th request
delete_loop(sent, answers, k, tally) ==
    IF k > Len(sent) THEN tally
    ELSE delete_loop(sent, answers, k + 1, count_batch(answers[k], sent[k], tally))

DeleteResult(success, error, ok, failed) ==
    [success |-> success, error |-> error, success_count |-> ok, failed_count |-> failed]

\* the returned dictionary: error is the first of errors
ResultOf(tally) ==
    DeleteResult(tally.failed_count = 0,
                 IF tally.errors = <<>> THEN "" ELSE tally.errors[1],
                 tally.success_count, tally.failed_count)

\* delete_emails_graph: the result, and the batches sent to the provider
delete_emails_graph(tok, answers, message_ids) ==
    IF ~get_access_token_graph(tok)
    THEN [result |-> DeleteResult(FALSE, "token_failed", 0, 0), sent |-> <<>>]
    ELSE [result |-> ResultOf(delete_loop(batches(message_ids), answers, 1, Tally(0, 0, <<>>))),
          sent |-> batches(message_ids)]

\* the answer of a provider that deletes the messages of the mailbox box: 204
\* for a message it holds, 404 for any other id
ProviderAnswer(outcome, batch, box) ==
    BatchAnswer(outcome,
                IF outcome # "ok" THEN <<>>
                ELSE [i \in 1..Len(batch) |->
                        SubResponse(i - 1, IF batch[i] \in box THEN 204 ELSE 404)])

ProviderAnswers(outcome, message_ids, box) ==
    [k \in 1..Len(batches(message_ids)) |->
        ProviderAnswer(outcome, batches(message_ids)[k], box)]

\* the messages such a provider deleted
ProviderDeleted(tok, outcome, message_ids, box) ==
    IF get_access_token_graph(tok) /\ outcome = "ok"
    THEN {message_ids[i] : i \in 1..Len(message_ids)} \cap box
    ELSE {}

\* what the IMAP host does on connect and authenticate: succeed or raise
ImapLoginOutcomes == {"ok", "exception"}

\* delete_emails_imap: a token from the Graph token endpoint, the session up
\* to select('INBOX'), then the fixed answer; no STORE or EXPUNGE is ever sent
delete_emails_imap(tok, login) ==
    IF ~get_access_token_graph(tok) THEN DeleteResult(FALSE, "token_failed", 0, 0)
    ELSE IF login = "exception" THEN DeleteResult(FALSE, "exception_text", 0, 0)
    ELSE DeleteResult(FALSE, "imap_delete_unsupported", 0, 0)

\* what GET /me/messages/{id} answers for a message
DetailOutcomes == {"exception", "http_error", "empty", "ok"}

\* get_email_detail_graph: the message, or None
get_email_detail_graph(tok, outcome, message_id, box) ==
    get_access_token_graph(tok) /\ outcome = "ok" /\ message_id \in box

\* what the IMAP session of get_email_detail_imap does
ImapDetailOutcomes == {"exception", "no_folder", "fetch_failed", "ok"}

\* get_email_detail_imap: the message, or None
get_email_detail_imap(tok, outcome, message_id, box) ==
    get_access_token_imap(tok) /\ outcome = "ok" /\ message_id \in box

\* the request of a message handler
MsgRequest(op, found, method, ids) ==
    [op |-> op, found |-> found, method |-> method, ids |-> ids]

NoMsgRequest == MsgRequest("none", FALSE, "", <<>>)

\* the response of a message handler: the JSON of api_delete_emails and
\* delete_emails_imap, or of api_get_email_detail with the backend whose
\* detail it carries
MsgResponse(success, error, ok, failed, served_by) ==
    [success |-> success, error |-> error, success_count |-> ok, failed_count |-> failed,
     served_by |-> served_by]

NoMsgResponse == MsgResponse(FALSE, "", 0, 0, "")

FromDelete(result) ==
    MsgResponse(result.success, result.error, result.success_count, result.failed_count, "")

\* api_delete_emails for a request that names an address and ids: the account
\* lookup, delete_emails_graph, and its result whatever it is
api_delete_emails(found, message_ids, tok, outcome) ==
    LET graph_res == delete_emails_graph(tok, ProviderAnswers(outcome, message_ids, mailbox),
                                         message_ids)
    IN
    /\ m_req' = MsgRequest("api_delete_emails", found, "", message_ids)
    /\ IF ~found
       THEN /\ m_calls' = <<>>
            /\ m_resp' = MsgResponse(FALSE, "account_not_found", 0, 0, "")
            /\ UNCHANGED mailbox
       ELSE /\ m_calls' = <<"graph">>
            /\ m_resp' = FromDelete(graph_res.result)
            /\ mailbox' = mailbox \ ProviderDeleted(tok, outcome, message_ids, mailbox)

\* a call of delete_emails_imap
CallDeleteEmailsImap(message_ids, tok, login) ==
    /\ m_req' = MsgRequest("delete_emails_imap", TRUE, "", message_ids)
    /\ m_calls' = <<"imap">>
    /\ m_resp' = FromDelete(delete_emails_imap(tok, login))
    /\ UNCHANGED mailbox

\* api_get_email_detail: the account lookup, the Graph attempt when the query
\* parameter method is graph (its default), then the IMAP attempt
api_get_email_detail(found, method, message_id, tok, outcome, tok2, outcome2) ==
    LET graph_ok == get_email_detail_graph(tok, outcome, message_id, mailbox)
        imap_ok == get_email_detail_imap(tok2, outcome2, message_id, mailbox)
    IN
    /\ m_req' = MsgRequest("api_get_email_detail", found, method, <<message_id>>)
    /\ UNCHANGED mailbox
    /\ IF ~found
       THEN /\ m_calls' = <<>>
            /\ m_resp' = MsgResponse(FALSE, "account_not_found", 0, 0, "")
       ELSE IF method = "graph" /\ graph_ok
       THEN /\ m_calls' = <<"graph">>
            /\ m_resp' = MsgResponse(TRUE, "", 0, 0, "graph")
       ELSE /\ m_calls' = IF method = "graph" THEN <<"graph", "imap">> ELSE <<"imap">>
            /\ m_resp' = IF imap_ok THEN MsgResponse(TRUE, "", 0, 0, "imap")
                         ELSE MsgResponse(FALSE, "detail_failed", 0, 0, "")

\* the provider's mailbox gets a message
Deliver(message_id) ==
    /\ message_id \notin mailbox
    /\ mailbox' = mailbox \cup {message_id}
    /\ UNCHANGED <<m_req, m_calls, m_resp>>

InitMsg ==
    /\ mailbox = {}
    /\ m_req = NoMsgRequest
    /\ m_calls = <<>>
    /\ m_resp = NoMsgResponse

(***************************************************************************)
(* Error bodies (inputs) and the calls that report them                    *)
(***************************************************************************)
\* the keys whose value is a secret
SecretKeys == {"refresh_token", "access_token", "password", "secret"}

\* a secret value: characters of the token class and others
SecretValues == UNION {[1..n -> {"a", "!"}] : n \in 1..(MaxLen - 1)}

\* a bearer token (RFC 6750 b64token): token characters, then = padding
BearerValues ==
    {value \o pad : value \in UNION {[1..n -> {"a"}] : n \in 1..(MaxLen - 1)},
                    pad \in {<<>>, <<"=">>}}

\* an error body: its text, whether it is a JSON object, the key and the
\* secret value it holds
Body(text, json, key, secret) ==
    [text |-> text, json |-> json, key |-> key, secret |-> secret]

NoBody == Body(<<>>, FALSE, "", <<>>)

\* key=value among other form fields
FormBody(key, value, before, after) == before \o <<key, "=">> \o value \o after

JsonBodies ==
    {Body(JsonBody(key, value, sp), TRUE, key, value) :
        key \in SecretKeys, value \in SecretValues, sp \in {<<>>, <<" ">>}}

FormBodies ==
    {Body(FormBody(key, value, before, after), FALSE, key, value) :
        key \in SecretKeys, value \in SecretValues,
        before \in {<<>>, <<"scope", "=", "mail", "&">>},
        after \in {<<>>, <<"&", "scope", "=", "mail">>}}

BearerBodies ==
    {Body(before \o <<"bearer", " ">> \o value, FALSE, "bearer", value) :
        value \in BearerValues, before \in {<<>>, <<"Authorization", ":", " ">>}}

Bodies == JsonBodies \cup FormBodies \cup BearerBodies

\* a call of sanitize_error_details on an error body
Sanitize(body) ==
    /\ e_body' = body
    /\ e_details' = sanitize_error_details(body.text)
    /\ UNCHANGED <<k_req, k_result, k_tested>>

\* the bodies of the token endpoint's answers: JSON objects, and texts that
\* are no JSON
AnswerBodies ==
    {body \in JsonBodies : ~Contains(body.text, <<" ">>)}
    \cup {body \in FormBodies : Len(body.text) = 2 + Len(body.secret)}

\* texts of the exceptions of requests.post
ExceptionTexts == {<<"timed", " ", "out">>, <<"connection", " ", "refused">>}

\* the answers of the token endpoint with their bodies; an answer has a
\* token when its body is a JSON object with a non-empty access_token
TokenAnswers ==
    {TokenAnswer(TRUE, 0, FALSE, FALSE, text) : text \in ExceptionTexts}
    \cup {TokenAnswer(FALSE, 400, body.json, FALSE, body.text) : body \in AnswerBodies}
    \cup {TokenAnswer(FALSE, 200, body.json, body.json /\ body.key = "access_token", body.text) :
            body \in AnswerBodies}

TokenRequest(url, res) == [url |-> url, res |-> res]

NoTokenRequest == TokenRequest("", TokenAnswer(FALSE, 0, FALSE, FALSE, <<>>))

\* test_refresh_token has not been called
NotTested == [success |-> FALSE, error_msg |-> Msg("not_called", <<>>)]

\* a call of get_access_token_graph_result, the endpoint answering res
CallGraphToken(res) ==
    /\ k_req' = TokenRequest(TOKEN_URL_GRAPH, res)
    /\ k_result' = get_access_token_graph_result(res)
    /\ UNCHANGED <<e_body, e_details, k_tested>>

\* a call of get_access_token_imap_result, the endpoint answering res
CallImapToken(res) ==
    /\ k_req' = TokenRequest(TOKEN_URL_IMAP, res)
    /\ k_result' = get_access_token_imap_result(res)
    /\ UNCHANGED <<e_body, e_details, k_tested>>

InitErr ==
    /\ e_body = NoBody
    /\ e_details = <<>>
    /\ k_req = NoTokenRequest
    /\ k_result = Success(<<>>)
    /\ k_tested = NotTested

\* the answer as test_refresh_token reads it: the status, whether res.json()
\* parses, and the error_description (the bodies here have none, so the
\* default text)
AsRefreshResponse(res) ==
    [exc |-> res.exc, status |-> res.status, json |-> res.json,
     text |-> IF res.exc THEN res.body ELSE <<"unknown_error">>]

\* a call of test_refresh_token, the endpoint answering k_req.res
CallTestRefreshToken ==
    /\ k_tested = NotTested
    /\ k_tested' = test_refresh_token(AsRefreshResponse(k_req.res))
    /\ UNCHANGED <<e_body, e_details, k_req, k_result>>

\* the token endpoint is about to answer a validation request
InitErrTest ==
    /\ e_body = NoBody
    /\ e_details = <<>>
    /\ k_req \in {TokenRequest(TOKEN_URL_GRAPH, res) : res \in TokenAnswers}
    /\ k_result = Success(<<>>)
    /\ k_tested = NotTested

(***************************************************************************)
(* get_emails_imap_with_server on its own                                  *)
(***************************************************************************)
\* the logical folders a request can name; notes is one folder_map lacks
Folders == {"inbox", "junkemail", "deleteditems", "trash", "notes"}

\* what select accepts on the hosts considered
SelectableChoices ==
    {{}, {"INBOX"}, {"Junk"}, {"\"Junk Email\"", "Junk"}, {"\"INBOX\"", "\"Deleted Items\""}}

\* what list gives on them: an exception, nothing, two folders, all folders
ListedChoices ==
    {Listed(TRUE, <<>>), Listed(FALSE, <<>>), Listed(FALSE, SubSeq(FolderNames, 1, 2)),
     Listed(FALSE, FolderNames)}

ImapAnswers ==
    {ImapAnswer(FALSE, {}, Listed(FALSE, <<>>), FALSE, 0, {})}
    \cup {ImapAnswer(TRUE, selectable, listed, FALSE, 0, {}) :
            selectable \in SelectableChoices, listed \in ListedChoices}
    \cup {ImapAnswer(TRUE, selectable, Listed(FALSE, <<>>), TRUE, n, b) :
            selectable \in SelectableChoices, n \in 0..MaxTotal, b \in {{}, {1}}}

ImapRequest(tok, res, folder, skip, top) ==
    [tok |-> tok, res |-> res, folder |-> folder, skip |-> skip, top |-> top]

NoSession == Session(Success(<<>>), <<>>, <<>>)

\* a call of get_emails_imap_with_server with the arguments of i_req
CallImap ==
    /\ i_pc = "call"
    /\ i_pc' = "returned"
    /\ i_session' = imap_session(i_req.tok, i_req.res, i_req.folder, i_req.skip, i_req.top)
    /\ UNCHANGED i_req

InitImap ==
    /\ i_pc = "idle"
    /\ i_req = ImapRequest(CHOOSE tok \in TokenResponses : TRUE,
                           ImapAnswer(FALSE, {}, Listed(FALSE, <<>>), FALSE, 0, {}),
                           "inbox", 0, 1)
    /\ i_session = NoSession

\* any call: any token answer, any host, any folder and page
InitImapArgs ==
    /\ i_pc = "call"
    /\ i_req \in {ImapRequest(tok, res, folder, skip, top) :
                    tok \in TokenResponses, res \in ImapAnswers, folder \in Folders,
                    skip \in 0..MaxSkip, top \in 1..MaxTop}
    /\ i_session = NoSession

(***************************************************************************)
(* delete_emails_graph on its own                                          *)
(***************************************************************************)
\* the ids of a request: n message ids (the code does not look into them)
DeleteIdLists == {[i \in 1..n |-> i] : n \in 0..MaxDeleteIds}

\* the bodies of a 200 answer to a batch: an entry per request, all 204 or
\* all 404; the same without the entry of the last request; no entry at all;
\* one entry, a 404 whose id is no index of the batch
ResponseLists(batch) ==
    {[i \in 1..Len(batch) |-> SubResponse(i - 1, 204)],
     [i \in 1..Len(batch) |-> SubResponse(i - 1, 404)],
     [i \in 1..(Len(batch) - 1) |-> SubResponse(i - 1, 204)],
     <<>>,
     <<SubResponse(Len(batch), 404)>>}

BatchAnswersOf(batch) ==
    {BatchAnswer("exception", <<>>), BatchAnswer("http_error", <<>>)}
    \cup {BatchAnswer("ok", responses) : responses \in ResponseLists(batch)}

\* an answer for each batch of the request
AnswerLists(message_ids) ==
    {answers \in [1..Len(batches(message_ids)) ->
                    UNION {BatchAnswersOf(batches(message_ids)[k]) :
                             k \in 1..Len(batches(message_ids))}] :
        \A k \in 1..Len(answers) : answers[k] \in BatchAnswersOf(batches(message_ids)[k])}

DeleteRequest(tok, message_ids, answers) ==
    [tok |-> tok, message_ids |-> message_ids, answers |-> answers]

NoDeleteCall == [result |-> DeleteResult(FALSE, "", 0, 0), sent |-> <<>>]

\* a call of delete_emails_graph with the arguments of d_req
CallDeleteEmailsGraph ==
    /\ d_pc = "call"
    /\ d_pc' = "returned"
    /\ d_res' = delete_emails_graph(d_req.tok, d_req.answers, d_req.message_ids)
    /\ UNCHANGED d_req

InitDelete ==
    /\ d_pc = "idle"
    /\ d_req = DeleteRequest(CHOOSE tok \in TokenResponses : TRUE, <<>>, <<>>)
    /\ d_res = NoDeleteCall

\* any call: any token answer, any number of ids, any answers to the batches
InitDeleteArgs ==
    /\ d_pc = "call"
    /\ d_req \in {DeleteRequest(tok, message_ids, answers) :
                    tok \in TokenResponses, message_ids \in DeleteIdLists,
                    answers \in UNION {AnswerLists(l) : l \in DeleteIdLists}}
    /\ d_req.answers \in AnswerLists(d_req.message_ids)
    /\ d_res = NoDeleteCall

InitList ==
    /\ l_pc = "idle"
    /\ l_req = [account |-> 1, skip |-> 0, top |-> 1]
    /\ all_errors = <<>>
    /\ attempts = <<>>
    /\ token_requests = <<>>
    /\ results = <<>>
    /\ l_resp = NoResp

InitDb == last_refresh_at = [id \in AccountIds |-> None]

Init ==
    InitList /\ InitGuard /\ InitBatch /\ InitDb /\ InitVaultIdle /\ InitTimer /\ InitStore
    /\ InitMsg /\ InitErr /\ InitImap /\ InitDelete

\* the account a request names: 0 for an address with no row
ListAccounts == {0} \cup {id \in AccountIds : id <= MaxRunAccounts}

NextList ==
    \/ \E account \in ListAccounts, skip \in 0..MaxSkip, top \in 1..MaxTop :
          ListStart(account, skip, top) /\ UNCHANGED <<guardVars, batchVars, vaultVars, timerVars, storeVars, msgVars, errVars, imapVars, deleteVars>>
    \/ \E tok \in TokenResponses, res \in GraphResponses :
          TryGraph(tok, res) /\ UNCHANGED <<guardVars, batchVars, vaultVars, timerVars, storeVars, msgVars, errVars, imapVars, deleteVars>>
    \/ \E tok \in TokenResponses, res \in ImapResponses :
          TryImapNew(tok, res) /\ UNCHANGED <<guardVars, batchVars, vaultVars, timerVars, storeVars, msgVars, errVars, imapVars, deleteVars>>
    \/ \E tok \in TokenResponses, res \in ImapResponses :
          TryImapOld(tok, res) /\ UNCHANGED <<guardVars, batchVars, vaultVars, timerVars, storeVars, msgVars, errVars, imapVars, deleteVars>>
    \/ ListReturn /\ UNCHANGED <<guardVars, batchVars, vaultVars, timerVars, storeVars, msgVars, errVars, imapVars, deleteVars>>

SpecList == Init /\ [][NextList]_vars

NextGuard ==
    \/ \E ip \in Sources, password_ok \in BOOLEAN :
          Login(ip, password_ok) /\ UNCHANGED <<listVars, batchVars, dbVars, vaultVars, timerVars, storeVars, msgVars, errVars, imapVars, deleteVars>>
    \/ Tick /\ UNCHANGED <<listVars, batchVars, dbVars, vaultVars, timerVars, storeVars, msgVars, errVars, imapVars, deleteVars>>

SpecGuard == Init /\ [][NextGuard]_vars

\* Records of different sources are separate dictionary entries that no
\* handler step reads or writes together, so the interleavings that matter are
\* those of requests of one and the same source.
RacingSources == {CHOOSE ip \in Sources : TRUE}

NextGuardConc ==
    \/ \E r \in Slots, ip \in RacingSources :
          LoginCheck(r, ip) /\ UNCHANGED <<listVars, batchVars, dbVars, vaultVars, timerVars, storeVars, msgVars, errVars, imapVars, deleteVars>>
    \/ \E r \in Slots, password_ok \in BOOLEAN :
          LoginVerify(r, password_ok) /\ UNCHANGED <<listVars, batchVars, dbVars, vaultVars, timerVars, storeVars, msgVars, errVars, imapVars, deleteVars>>
    \/ Tick /\ UNCHANGED <<listVars, batchVars, dbVars, vaultVars, timerVars, storeVars, msgVars, errVars, imapVars, deleteVars>>

SpecGuardConc == Init /\ [][NextGuardConc]_vars

NextBatch ==
    \/ \E accs \in ActiveAccountLists, delay \in DelayChoices,
          type \in {"manual", "scheduled"} :
          BatchStart(accs, delay, type) /\ UNCHANGED <<listVars, guardVars, vaultVars, timerVars, storeVars, msgVars, errVars, imapVars, deleteVars>>
    \/ BatchDecryptFail /\ UNCHANGED <<listVars, guardVars, vaultVars, timerVars, storeVars, msgVars, errVars, imapVars, deleteVars>>
    \/ BatchProgress /\ UNCHANGED <<listVars, guardVars, vaultVars, timerVars, storeVars, msgVars, errVars, imapVars, deleteVars>>
    \/ \E res \in RefreshResponses : BatchTest(res) /\ UNCHANGED <<listVars, guardVars, vaultVars, timerVars, storeVars, msgVars, errVars, imapVars, deleteVars>>
    \/ BatchSleep /\ UNCHANGED <<listVars, guardVars, vaultVars, timerVars, storeVars, msgVars, errVars, imapVars, deleteVars>>
    \/ BatchComplete /\ UNCHANGED <<listVars, guardVars, vaultVars, timerVars, storeVars, msgVars, errVars, imapVars, deleteVars>>

SpecBatch == Init /\ [][NextBatch]_vars

\* a run whose consumer reads the stream to its end: the generator is resumed
\* after every yield, and each segment ends (the token request has a timeout,
\* the sleep is finite)
BatchResume ==
    \/ BatchDecryptFail /\ UNCHANGED <<listVars, guardVars, vaultVars, timerVars, storeVars, msgVars, errVars, imapVars, deleteVars>>
    \/ BatchProgress /\ UNCHANGED <<listVars, guardVars, vaultVars, timerVars, storeVars, msgVars, errVars, imapVars, deleteVars>>
    \/ \E res \in RefreshResponses : BatchTest(res) /\ UNCHANGED <<listVars, guardVars, vaultVars, timerVars, storeVars, msgVars, errVars, imapVars, deleteVars>>
    \/ BatchSleep /\ UNCHANGED <<listVars, guardVars, vaultVars, timerVars, storeVars, msgVars, errVars, imapVars, deleteVars>>
    \/ BatchComplete /\ UNCHANGED <<listVars, guardVars, vaultVars, timerVars, storeVars, msgVars, errVars, imapVars, deleteVars>>

SpecBatchFair == SpecBatch /\ WF_vars(BatchResume)

\* the account rows of SpecValidate and SpecSched: every credential tagged (the
\* untagged form is covered by SpecBatch)
RunAccountRows ==
    {row \in AccountRows : row.id <= MaxRunAccounts /\ startswith_enc(row.refresh_token)}

RunAccountLists ==
    {l \in ActiveAccountLists : \A i \in 1..Len(l) : l[i] \in RunAccountRows}

Room(accs) == Len(refresh_logs) + Len(accs) <= MaxLogs

PlainResponses == {res \in RefreshResponses : ~res.exc /\ res.text # <<"refresh_token", "=", "a">>}

BatchInFlight == b_pc \in {"loop", "test", "sleep", "retry"}

TimerInFlight == t_pc \in {"loop", "sleep"}

\* every validation path, one run at a time, with refresh_delay_seconds = 0
NextValidate ==
    \/ \E accs \in RunAccountLists :
          /\ Room(accs) /\ ~TimerInFlight
          /\ BatchStart(accs, 0, "manual")
          /\ UNCHANGED <<listVars, guardVars, vaultVars, timerVars, storeVars, msgVars, errVars, imapVars, deleteVars>>
    \/ BatchDecryptFail /\ UNCHANGED <<listVars, guardVars, vaultVars, timerVars, storeVars, msgVars, errVars, imapVars, deleteVars>>
    \/ BatchProgress /\ UNCHANGED <<listVars, guardVars, vaultVars, timerVars, storeVars, msgVars, errVars, imapVars, deleteVars>>
    \/ \E res \in PlainResponses :
          BatchTest(res) /\ UNCHANGED <<listVars, guardVars, vaultVars, timerVars, storeVars, msgVars, errVars, imapVars, deleteVars>>
    \/ BatchComplete /\ UNCHANGED <<listVars, guardVars, vaultVars, timerVars, storeVars, msgVars, errVars, imapVars, deleteVars>>
    \/ BatchClose /\ UNCHANGED <<listVars, guardVars, vaultVars, timerVars, storeVars, msgVars, errVars, imapVars, deleteVars>>
    \/ \E row \in RunAccountRows, res \in PlainResponses :
          /\ Room(<<row>>) /\ ~TimerInFlight /\ ~BatchInFlight
          /\ api_refresh_account(row, res)
          /\ UNCHANGED <<listVars, guardVars, vaultVars, timerVars, storeVars, msgVars, errVars, imapVars, deleteVars>>
    \/ \E accs \in RunAccountLists :
          /\ Room(accs) /\ ~TimerInFlight
          /\ RetryStart(accs)
          /\ UNCHANGED <<listVars, guardVars, vaultVars, timerVars, storeVars, msgVars, errVars, imapVars, deleteVars>>
    \/ \E res \in PlainResponses :
          RetryStep(res) /\ UNCHANGED <<listVars, guardVars, vaultVars, timerVars, storeVars, msgVars, errVars, imapVars, deleteVars>>
    \/ RetryReturn /\ UNCHANGED <<listVars, guardVars, vaultVars, timerVars, storeVars, msgVars, errVars, imapVars, deleteVars>>
    \/ \E accs \in RunAccountLists :
          /\ Room(accs) /\ ~BatchInFlight
          /\ scheduled_refresh_task(TRUE, TRUE, 1, accs, 0)
          /\ UNCHANGED <<listVars, guardVars, vaultVars, batchVars, dbVars, storeVars, msgVars, errVars, imapVars, deleteVars>>
    \/ \E res \in PlainResponses :
          TimerStep(res) /\ UNCHANGED <<listVars, guardVars, vaultVars, storeVars, msgVars, errVars, imapVars, deleteVars>>
    \/ TimerEnd /\ UNCHANGED <<listVars, guardVars, vaultVars, batchVars, dbVars, storeVars, msgVars, errVars, imapVars, deleteVars>>

SpecValidate == Init /\ [][NextValidate]_vars

\* the account lists of SpecSched: every credential stored encrypted
SchedAccountLists ==
    {l \in RunAccountLists :
        \A i \in 1..Len(l) : l[i].refresh_token = <<"enc:", "iv1">> \o RefreshSecret}

\* the scheduled entry points, the timer thread beside the request threads,
\* with refresh_delay_seconds = 0
NextSched ==
    \/ \E force \in BOOLEAN, days \in IntervalChoices, accs \in SchedAccountLists :
          /\ Room(accs)
          /\ api_trigger_scheduled_refresh(force, days, accs, 0)
          /\ UNCHANGED <<listVars, guardVars, vaultVars, t_pc, t_accounts, t_delay, t_index, storeVars, msgVars, errVars, imapVars, deleteVars>>
    \/ BatchProgress /\ UNCHANGED <<listVars, guardVars, vaultVars, timerVars, storeVars, msgVars, errVars, imapVars, deleteVars>>
    \/ \E res \in PlainResponses :
          BatchTest(res) /\ UNCHANGED <<listVars, guardVars, vaultVars, timerVars, storeVars, msgVars, errVars, imapVars, deleteVars>>
    \/ BatchComplete /\ UNCHANGED <<listVars, guardVars, vaultVars, timerVars, storeVars, msgVars, errVars, imapVars, deleteVars>>
    \/ \E enable_scheduled \in BOOLEAN, use_cron \in BOOLEAN, days \in IntervalChoices,
          accs \in SchedAccountLists :
          /\ Room(accs)
          /\ scheduled_refresh_task(enable_scheduled, use_cron, days, accs, 0)
          /\ UNCHANGED <<listVars, guardVars, vaultVars, batchVars, dbVars, storeVars, msgVars, errVars, imapVars, deleteVars>>
    \/ \E res \in PlainResponses :
          TimerStep(res) /\ UNCHANGED <<listVars, guardVars, vaultVars, storeVars, msgVars, errVars, imapVars, deleteVars>>
    \/ TimerEnd /\ UNCHANGED <<listVars, guardVars, vaultVars, batchVars, dbVars, storeVars, msgVars, errVars, imapVars, deleteVars>>
    \/ DayPasses /\ UNCHANGED <<listVars, batchVars, dbVars, vaultVars, timerVars, storeVars, msgVars, errVars, imapVars, deleteVars>>

SpecSched == Init /\ [][NextSched]_vars

NextVault ==
    \/ \E iv \in FernetIVs :
          VaultEncrypt(iv) /\ UNCHANGED <<listVars, guardVars, batchVars, dbVars, timerVars, storeVars, msgVars, errVars, imapVars, deleteVars>>
    \/ VaultDecrypt /\ UNCHANGED <<listVars, guardVars, batchVars, dbVars, timerVars, storeVars, msgVars, errVars, imapVars, deleteVars>>
    \/ \E iv \in FernetIVs :
          VaultEncryptAgain(iv) /\ UNCHANGED <<listVars, guardVars, batchVars, dbVars, timerVars, storeVars, msgVars, errVars, imapVars, deleteVars>>
    \/ VaultDecryptBack /\ UNCHANGED <<listVars, guardVars, batchVars, dbVars, timerVars, storeVars, msgVars, errVars, imapVars, deleteVars>>

\* a call of the vault with any argument, everything else as constructed
InitVaultCall ==
    InitList /\ InitGuard /\ InitBatch /\ InitDb /\ InitTimer /\ InitStore /\ InitMsg
    /\ InitVault /\ InitErr /\ InitImap /\ InitDelete

SpecVault == InitVaultCall /\ [][NextVault]_vars

\* the lines of an import text
ImportLines ==
    {<<ImportLine(e, pw, rt)>> : e \in Emails, pw \in Passwords, rt \in RefreshTokens}
    \cup {<<ImportLine("a@x", <<"x">>, RefreshSecret), ImportLine(e, <<>>, RefreshSecret)>> :
             e \in Emails}

\* the IV of the encryptions of a store operation
StoreIVs == {"iv2"}

NextStore ==
    \/ \E iv \in StoreIVs :
          /\ migrate_sensitive_data(iv)
          /\ UNCHANGED <<listVars, guardVars, batchVars, dbVars, vaultVars, timerVars, msgVars, errVars, imapVars, deleteVars>>
    \/ \E lines \in ImportLines, iv \in StoreIVs :
          /\ db_seq + Len(lines) <= MaxRows
          /\ api_add_account(lines, iv)
          /\ UNCHANGED <<listVars, guardVars, batchVars, dbVars, vaultVars, timerVars, msgVars, errVars, imapVars, deleteVars>>
    \/ \E account_id \in StoreIds, email_addr \in Emails, password \in Passwords,
          refresh_token \in RefreshTokens, iv \in StoreIVs :
          /\ api_update_account(account_id, email_addr, password, refresh_token, iv)
          /\ UNCHANGED <<listVars, guardVars, batchVars, dbVars, vaultVars, timerVars, msgVars, errVars, imapVars, deleteVars>>
    \/ \E account_id \in StoreIds :
          /\ delete_account_by_id(account_id)
          /\ UNCHANGED <<listVars, guardVars, vaultVars, timerVars, msgVars, errVars, imapVars, deleteVars>>
          /\ UNCHANGED <<b_pc, accounts, delay_seconds, refresh_type, success_count,
                         failed_count, failed_list, index, events, refresh_requests>>
    \/ \E email_addr \in Emails :
          /\ delete_account_by_email(email_addr)
          /\ UNCHANGED <<listVars, guardVars, vaultVars, timerVars, msgVars, errVars, imapVars, deleteVars>>
          /\ UNCHANGED <<b_pc, accounts, delay_seconds, refresh_type, success_count,
                         failed_count, failed_list, index, events, refresh_requests>>
    \/ load_accounts
          /\ UNCHANGED <<listVars, guardVars, batchVars, dbVars, vaultVars, timerVars, msgVars, errVars, imapVars, deleteVars>>
    \/ \E email_addr \in Emails :
          /\ get_account_by_email(email_addr)
          /\ UNCHANGED <<listVars, guardVars, batchVars, dbVars, vaultVars, timerVars, msgVars, errVars, imapVars, deleteVars>>
    \/ \E account_id \in StoreIds :
          /\ get_account_by_id(account_id)
          /\ UNCHANGED <<listVars, guardVars, batchVars, dbVars, vaultVars, timerVars, msgVars, errVars, imapVars, deleteVars>>

\* the database file of an earlier run, then start-up and store operations
InitStoreCall ==
    InitList /\ InitGuard /\ InitBatch /\ InitDb /\ InitVaultIdle /\ InitTimer /\ InitMsg
    /\ InitStoreBoot /\ InitErr /\ InitImap /\ InitDelete

SpecStore == InitStoreCall /\ [][NextStore]_vars

\* the lines of an import text of accounts without a password
PlainImportLines ==
    {l \in ImportLines : \A i \in 1..Len(l) : l[i].password = <<>>}

\* accounts added, validated and deleted
NextStoreLogs ==
    \/ \E lines \in PlainImportLines, iv \in StoreIVs :
          /\ db_seq + Len(lines) <= MaxRows
          /\ api_add_account(lines, iv)
          /\ UNCHANGED <<listVars, guardVars, batchVars, dbVars, vaultVars, timerVars, msgVars, errVars, imapVars, deleteVars>>
    \/ \E i \in StoreIds, res \in PlainResponses :
          /\ Room(<<i>>)
          /\ StoreValidate(i, res)
          /\ UNCHANGED <<listVars, guardVars, vaultVars, timerVars, msgVars, errVars, imapVars, deleteVars>>
    \/ \E account_id \in StoreIds :
          /\ delete_account_by_id(account_id)
          /\ UNCHANGED <<listVars, guardVars, vaultVars, timerVars, msgVars, errVars, imapVars, deleteVars>>
          /\ UNCHANGED <<b_pc, accounts, delay_seconds, refresh_type, success_count,
                         failed_count, failed_list, index, events, refresh_requests>>
    \/ \E email_addr \in Emails :
          /\ delete_account_by_email(email_addr)
          /\ UNCHANGED <<listVars, guardVars, vaultVars, timerVars, msgVars, errVars, imapVars, deleteVars>>
          /\ UNCHANGED <<b_pc, accounts, delay_seconds, refresh_type, success_count,
                         failed_count, failed_list, index, events, refresh_requests>>

SpecStoreLogs == Init /\ [][NextStoreLogs]_vars

\* the message handlers, one request at a time
NextMsg ==
    \/ \E found \in BOOLEAN, message_ids \in MessageIdLists, tok \in TokenResponses,
          outcome \in BatchOutcomes :
          /\ api_delete_emails(found, message_ids, tok, outcome)
          /\ UNCHANGED <<listVars, guardVars, batchVars, dbVars, vaultVars, timerVars, storeVars, errVars, imapVars, deleteVars>>
    \/ \E message_ids \in MessageIdLists, tok \in TokenResponses, login \in ImapLoginOutcomes :
          /\ CallDeleteEmailsImap(message_ids, tok, login)
          /\ UNCHANGED <<listVars, guardVars, batchVars, dbVars, vaultVars, timerVars, storeVars, errVars, imapVars, deleteVars>>
    \/ \E found \in BOOLEAN, method \in {"graph", "imap"}, message_id \in MessageIds,
          tok \in TokenResponses, outcome \in DetailOutcomes,
          tok2 \in TokenResponses, outcome2 \in ImapDetailOutcomes :
          /\ api_get_email_detail(found, method, message_id, tok, outcome, tok2, outcome2)
          /\ UNCHANGED <<listVars, guardVars, batchVars, dbVars, vaultVars, timerVars, storeVars, errVars, imapVars, deleteVars>>
    \/ \E message_id \in MessageIds :
          /\ Deliver(message_id)
          /\ UNCHANGED <<listVars, guardVars, batchVars, dbVars, vaultVars, timerVars, storeVars, errVars, imapVars, deleteVars>>

SpecMsg == Init /\ [][NextMsg]_vars

\* sanitize_error_details applied to any error body
NextSanitize ==
    \E body \in Bodies :
        /\ Sanitize(body)
        /\ UNCHANGED <<listVars, guardVars, batchVars, dbVars, vaultVars, timerVars, storeVars,
                       msgVars, imapVars, deleteVars>>

SpecSanitize == Init /\ [][NextSanitize]_vars

\* the two token acquisitions, the endpoint answering anything
NextToken ==
    \/ \E res \in TokenAnswers :
          /\ CallGraphToken(res)
          /\ UNCHANGED <<listVars, guardVars, batchVars, dbVars, vaultVars, timerVars, storeVars,
                         msgVars, imapVars, deleteVars>>
    \/ \E res \in TokenAnswers :
          /\ CallImapToken(res)
          /\ UNCHANGED <<listVars, guardVars, batchVars, dbVars, vaultVars, timerVars, storeVars,
                         msgVars, imapVars, deleteVars>>

SpecToken == Init /\ [][NextToken]_vars

\* the account lists of SpecThrottle: up to MaxThrottleAccounts accounts whose
\* credential is stored encrypted or cannot be decrypted
ThrottleAccountLists ==
    {l \in ActiveAccountLists :
        /\ Len(l) <= MaxThrottleAccounts
        /\ \A i \in 1..Len(l) :
              l[i].id <= MaxThrottleAccounts /\ startswith_enc(l[i].refresh_token)}

ThrottleRoom(accs) == Len(refresh_logs) + Len(accs) <= MaxThrottleLogs

\* the four batch variants, one run at a time, with refresh_delay_seconds
\* never set (DEFAULT_DELAY_SECONDS)
NextThrottle ==
    \/ \E accs \in ThrottleAccountLists :
          /\ ThrottleRoom(accs) /\ ~TimerInFlight
          /\ BatchStart(accs, DEFAULT_DELAY_SECONDS, "manual")
          /\ UNCHANGED <<listVars, guardVars, vaultVars, timerVars, storeVars, msgVars, errVars, imapVars, deleteVars>>
    \/ \E accs \in ThrottleAccountLists :
          /\ ThrottleRoom(accs) /\ ~TimerInFlight
          /\ api_trigger_scheduled_refresh(TRUE, 1, accs, DEFAULT_DELAY_SECONDS)
          /\ UNCHANGED <<listVars, guardVars, vaultVars, t_pc, t_accounts, t_delay, t_index, storeVars, msgVars, errVars, imapVars, deleteVars>>
    \/ BatchDecryptFail /\ UNCHANGED <<listVars, guardVars, vaultVars, timerVars, storeVars, msgVars, errVars, imapVars, deleteVars>>
    \/ BatchProgress /\ UNCHANGED <<listVars, guardVars, vaultVars, timerVars, storeVars, msgVars, errVars, imapVars, deleteVars>>
    \/ \E res \in PlainResponses : BatchTest(res) /\ UNCHANGED <<listVars, guardVars, vaultVars, timerVars, storeVars, msgVars, errVars, imapVars, deleteVars>>
    \/ BatchSleep /\ UNCHANGED <<listVars, guardVars, vaultVars, timerVars, storeVars, msgVars, errVars, imapVars, deleteVars>>
    \/ BatchComplete /\ UNCHANGED <<listVars, guardVars, vaultVars, timerVars, storeVars, msgVars, errVars, imapVars, deleteVars>>
    \/ \E accs \in ThrottleAccountLists :
          /\ ThrottleRoom(accs) /\ ~TimerInFlight
          /\ RetryStart(accs)
          /\ UNCHANGED <<listVars, guardVars, vaultVars, timerVars, storeVars, msgVars, errVars, imapVars, deleteVars>>
    \/ \E res \in PlainResponses : RetryStep(res) /\ UNCHANGED <<listVars, guardVars, vaultVars, timerVars, storeVars, msgVars, errVars, imapVars, deleteVars>>
    \/ RetryReturn /\ UNCHANGED <<listVars, guardVars, vaultVars, timerVars, storeVars, msgVars, errVars, imapVars, deleteVars>>
    \/ \E accs \in ThrottleAccountLists :
          /\ ThrottleRoom(accs) /\ ~BatchInFlight
          /\ scheduled_refresh_task(TRUE, TRUE, 1, accs, DEFAULT_DELAY_SECONDS)
          /\ UNCHANGED <<listVars, guardVars, vaultVars, batchVars, dbVars, storeVars, msgVars, errVars, imapVars, deleteVars>>
    \/ \E res \in PlainResponses : TimerStep(res) /\ UNCHANGED <<listVars, guardVars, vaultVars, storeVars, msgVars, errVars, imapVars, deleteVars>>
    \/ TimerSleep /\ UNCHANGED <<listVars, guardVars, vaultVars, batchVars, dbVars, storeVars, msgVars, errVars, imapVars, deleteVars>>
    \/ TimerEnd /\ UNCHANGED <<listVars, guardVars, vaultVars, batchVars, dbVars, storeVars, msgVars, errVars, imapVars, deleteVars>>

SpecThrottle == Init /\ [][NextThrottle]_vars

\* one call of test_refresh_token
NextTokenTest ==
    CallTestRefreshToken
    /\ UNCHANGED <<listVars, guardVars, batchVars, dbVars, vaultVars, timerVars, storeVars,
                   msgVars, imapVars, deleteVars>>

\* a validation request with any answer of the token endpoint, everything
\* else as constructed
InitTokenTest ==
    InitList /\ InitGuard /\ InitBatch /\ InitDb /\ InitVaultIdle /\ InitTimer /\ InitStore
    /\ InitMsg /\ InitErrTest /\ InitImap /\ InitDelete

SpecTokenTest == InitTokenTest /\ [][NextTokenTest]_vars

\* one call of the IMAP backend
NextImap ==
    CallImap
    /\ UNCHANGED <<listVars, guardVars, batchVars, dbVars, vaultVars, timerVars, storeVars,
                   msgVars, errVars, deleteVars>>

\* a call of the IMAP backend with any arguments, everything else as
\* constructed
InitImapCall ==
    InitList /\ InitGuard /\ InitBatch /\ InitDb /\ InitVaultIdle /\ InitTimer /\ InitStore
    /\ InitMsg /\ InitErr /\ InitImapArgs /\ InitDelete

SpecImap == InitImapCall /\ [][NextImap]_vars

\* one call of delete_emails_graph
NextDelete ==
    CallDeleteEmailsGraph
    /\ UNCHANGED <<listVars, guardVars, batchVars, dbVars, vaultVars, timerVars, storeVars,
                   msgVars, errVars, imapVars>>

\* a call of delete_emails_graph with any arguments, everything else as
\* constructed
InitDeleteCall ==
    InitList /\ InitGuard /\ InitBatch /\ InitDb /\ InitVaultIdle /\ InitTimer /\ InitStore
    /\ InitMsg /\ InitErr /\ InitImap /\ InitDeleteArgs

SpecDelete == InitDeleteCall /\ [][NextDelete]_vars

(***************************************************************************)
(* Claims about api_get_emails                                             *)
(***************************************************************************)
BackendOrder == <<"graph", "imap_new", "imap_old">>

MethodTag(backend) ==
    CASE backend = "graph" -> "Graph API"
      [] backend = "imap_new" -> "IMAP (New)"
      [] backend = "imap_old" -> "IMAP (Old)"

TokenOk(res) == ~res.exc /\ res.status = 200 /\ res.has_token

TokenErrorCodes ==
    {"GRAPH_TOKEN_EXCEPTION", "GRAPH_TOKEN_FAILED", "GRAPH_TOKEN_MISSING",
     "IMAP_TOKEN_EXCEPTION", "IMAP_TOKEN_FAILED", "IMAP_TOKEN_MISSING"}

ProfileUrl(backend) == IF backend = "graph" THEN TOKEN_URL_GRAPH ELSE TOKEN_URL_IMAP

Keys(d) == [i \in 1..Len(d) |-> d[i].key]

\* C1: the backends are attempted in the order graph, imap_new, imap_old; the
\* handler returns the page of the first backend that succeeds, tagged with
\* that backend, every backend before it has failed, and no backend is
\* attempted once a response has been produced.
C1_FailoverOrder ==
    /\ attempts = SubSeq(BackendOrder, 1, Len(attempts))
    /\ Len(attempts) <= 3
    /\ Len(results) = Len(attempts)
    /\ l_pc \in {"graph", "imap_new", "imap_old"} =>
          /\ ~l_resp.returned
          /\ l_pc = BackendOrder[Len(attempts) + 1]
          /\ \A i \in 1..Len(results) : ~results[i].success
    /\ l_resp.returned /\ l_resp.success =>
          /\ attempts # <<>>
          /\ results[Len(results)].success
          /\ \A i \in 1..(Len(results) - 1) : ~results[i].success
          /\ l_resp.emails = results[Len(results)].emails
          /\ l_resp.method = MethodTag(attempts[Len(attempts)])
    /\ l_resp.returned /\ ~l_resp.success /\ l_req.account \in AccountIds =>
          /\ attempts = BackendOrder
          /\ \A i \in 1..3 : ~results[i].success

\* C1 witness: backend 1 failed, backend 2 succeeded and served a non-empty page
C1_Witness ==
    /\ l_resp.returned /\ l_resp.success
    /\ attempts = <<"graph", "imap_new">>
    /\ l_resp.method = "IMAP (New)"
    /\ l_resp.emails # <<>>

\* C2: when all three backends fail the response's details hold exactly three
\* sub-errors, keyed graph, imap_new, imap_old in that order, each the error
\* its own backend returned.
C2_AllErrorsKept ==
    l_resp.returned /\ ~l_resp.success /\ l_req.account \in AccountIds =>
        /\ l_resp.error = "ALL_METHODS_FAILED"
        /\ Len(attempts) = 3
        /\ Len(l_resp.details) = 3
        /\ Keys(l_resp.details) = BackendOrder
        /\ \A i \in 1..3 : l_resp.details[i].error = results[i].error

\* C2 witness: all three failed, each with a different kind of error
C2_Witness ==
    /\ l_resp.returned /\ ~l_resp.success
    /\ Len(l_resp.details) = 3
    /\ l_resp.details[1].error.code = "GRAPH_TOKEN_FAILED"
    /\ l_resp.details[2].error.type = "IMAPSelectError"
    /\ l_resp.details[3].error.code = "IMAP_TOKEN_EXCEPTION"

\* C3: every attempt makes its own token request against its backend's token
\* endpoint; a token failure in attempt i is recorded under that backend's key
\* with a token error code, and the next backend is attempted all the same.
C3_TokenPerAttempt ==
    /\ Len(token_requests) = Len(attempts)
    /\ \A i \in 1..Len(attempts) :
          /\ token_requests[i].url = ProfileUrl(attempts[i])
          /\ ~TokenOk(token_requests[i].res) =>
                /\ Len(all_errors) >= i
                /\ all_errors[i].key = attempts[i]
                /\ all_errors[i].error.code \in TokenErrorCodes
                /\ i < 3 => (Len(attempts) > i \/ l_pc = BackendOrder[i + 1])
                /\ i = 3 => l_resp.returned /\ ~l_resp.success

\* C3 witness: the token requests of attempts 1 and 2 failed and attempt 3 was
\* made with a token of its own and succeeded
C3_Witness ==
    /\ Len(attempts) = 3
    /\ ~TokenOk(token_requests[1].res)
    /\ ~TokenOk(token_requests[2].res)
    /\ TokenOk(token_requests[3].res)
    /\ l_resp.returned /\ l_resp.success

\* C4 (as claimed): a successful response has has_more true exactly when the
\* returned page holds top messages, whichever backend served it.
C4_HasMoreIffFullPage ==
    l_resp.returned /\ l_resp.success =>
        (l_resp.has_more <=> Len(l_resp.emails) = l_req.top)

\* the Graph branch alone does compute has_more from the page size
C4_GraphHasMore ==
    l_resp.returned /\ l_resp.success /\ l_resp.method = "Graph API" =>
        (l_resp.has_more <=> Len(l_resp.emails) = l_req.top)

\* C26 (as claimed): retrieval never mutates the account record: no step of
\* a request for the messages of an account changes last_refresh_at, which
\* changes only when a validation succeeds.
C26_RetrievalLeavesAccount ==
    [][l_pc # "idle" => last_refresh_at' = last_refresh_at]_vars

\* the timestamp is left alone by every request that Graph did not serve
OnlyGraphSuccessStamps ==
    [][last_refresh_at' # last_refresh_at =>
          /\ l_pc = "graph"
          /\ l_resp'.success /\ l_resp'.method = "Graph API"
          /\ last_refresh_at' = [last_refresh_at EXCEPT ![l_req.account] = now]]_vars

(***************************************************************************)
(* Claims about message deletion and message detail                        *)
(***************************************************************************)
Unsupported == MsgResponse(FALSE, "imap_delete_unsupported", 0, 0, "")

\* C27 (as claimed): delete_emails_imap returns the unsupported failure for
\* every input and deletes nothing, and api_delete_emails never calls it: its
\* response is the outcome of delete_emails_graph, success or failure.
C27_ImapDeleteUnsupported ==
    /\ m_req.op = "delete_emails_imap" => m_resp = Unsupported
    /\ m_req.op = "api_delete_emails" /\ m_req.found =>
          /\ m_calls = <<"graph">>
          /\ m_resp.error # Unsupported.error

\* delete_emails_imap always fails and never deletes, and api_delete_emails
\* calls the Graph backend only
ImapDeleteNeverDeletes ==
    /\ [](m_req.op = "api_delete_emails" => \A i \in 1..Len(m_calls) : m_calls[i] # "imap")
    /\ [][\A message_ids \in MessageIdLists, tok \in TokenResponses,
            login \in ImapLoginOutcomes :
            CallDeleteEmailsImap(message_ids, tok, login) =>
                ~m_resp'.success /\ mailbox' = mailbox]_vars

\* C28 (as claimed): api_get_email_detail always tries the Graph backend
\* first, tries the IMAP backend only after the Graph attempt failed, and
\* reports failure only when both attempts failed.
C28_DetailGraphThenImap ==
    m_req.op = "api_get_email_detail" /\ m_req.found =>
        /\ m_calls \in {<<"graph">>, <<"graph", "imap">>}
        /\ m_calls = <<"graph">> <=> m_resp.served_by = "graph"
        /\ ~m_resp.success => m_calls = <<"graph", "imap">>

\* the fallback of C28 holds of every request whose method parameter is graph
DetailFallbackWhenGraph ==
    m_req.op = "api_get_email_detail" /\ m_req.found /\ m_req.method = "graph" =>
        /\ m_calls \in {<<"graph">>, <<"graph", "imap">>}
        /\ m_calls = <<"graph">> <=> m_resp.served_by = "graph"
        /\ ~m_resp.success => m_calls = <<"graph", "imap">>

(***************************************************************************)
(* Claims about the login rate limiter                                     *)
(***************************************************************************)
InWindow(rec, t) == t - rec.last_attempt <= ATTEMPT_WINDOW

\* the record carries a lockout and it is running at time t
Locked(rec, t) == rec.present /\ rec.locked_until # NoLock /\ t < rec.locked_until

\* the record carries a lockout and it is over at time t
LockoutElapsed(rec, t) == rec.present /\ rec.locked_until # NoLock /\ t >= rec.locked_until

\* C5 (as claimed): the check of a login request denies the source exactly
\* when the source has at least MAX_LOGIN_ATTEMPTS recorded failures inside
\* the ATTEMPT_WINDOW and its lockout has not elapsed; otherwise it allows.
C5_DeniedExactlyWhenLocked ==
    [][\A ip \in Sources, password_ok \in BOOLEAN :
         Login(ip, password_ok) =>
            (~g_resp'.allowed <=>
                /\ login_attempts[ip].present
                /\ login_attempts[ip].count >= MAX_LOGIN_ATTEMPTS
                /\ InWindow(login_attempts[ip], now)
                /\ ~LockoutElapsed(login_attempts[ip], now))]_vars

\* C6 (as claimed): the first check made after a lockout has expired allows
\* the source and starts no new lockout.
C6_AllowedAfterLockoutExpiry ==
    [][\A ip \in Sources, password_ok \in BOOLEAN :
         Login(ip, password_ok) /\ LockoutElapsed(login_attempts[ip], now) =>
            /\ g_resp'.allowed
            /\ login_attempts'[ip].locked_until \in {NoLock, login_attempts[ip].locked_until}]_vars

\* C7: a successful password verification removes the source's record,
\* whatever the record was (a running lockout included): a check made at any
\* later time returns (True, None) and changes nothing, and a failure recorded
\* at any later time has count 1.
C7_SuccessResets ==
    [][\A r \in Slots :
         LoginVerify(r, TRUE) =>
            LET ip == g_req[r].ip
                la == login_attempts'
            IN  /\ la[ip] = Absent
                /\ \A k \in 0..MaxTicks :
                     /\ check_rate_limit(la, ip, now + k * TickUnit) = CheckResult(la, TRUE, None)
                     /\ record_login_failure(la, ip, now + k * TickUnit)[ip].count = 1]_vars

\* C7 witness: the record was reset while its lockout was running
C7_Witness ==
    /\ g_resp.step = "success"
    /\ Locked(g_resp.prev, now)
    /\ g_resp.prev.count >= MAX_LOGIN_ATTEMPTS
    /\ login_attempts[g_resp.ip] = Absent

\* C8: while a source's lockout is running no step changes its failure count
\* or its lockout expiry, and a login request of that source, whether its
\* password is right or wrong, is denied with the seconds left until that
\* expiry.
C8_LockedFrame ==
    [][\A ip \in Sources :
         Locked(login_attempts[ip], now) =>
            /\ login_attempts'[ip].count = login_attempts[ip].count
            /\ login_attempts'[ip].locked_until = login_attempts[ip].locked_until
            /\ \A password_ok \in BOOLEAN :
                 Login(ip, password_ok) =>
                    g_resp' = LoginResp(ip, "denied", FALSE,
                                        login_attempts[ip].locked_until - now,
                                        login_attempts[ip])]_vars

\* C8 witness: a request denied part-way through a lockout, the record intact
C8_Witness ==
    /\ g_resp.step = "denied"
    /\ g_resp.remaining > 0
    /\ g_resp.remaining < LOCKOUT_DURATION
    /\ Locked(g_resp.prev, now)
    /\ login_attempts[g_resp.ip] = g_resp.prev

\* C31 (as claimed): the recorded failure that brings a source's count to
\* MAX_LOGIN_ATTEMPTS locks the source at once, the lockout ending
\* LOCKOUT_DURATION after that failure.
C31_LockAtThreshold ==
    /\ g_resp.step = "failure"
    /\ login_attempts[g_resp.ip].count = MAX_LOGIN_ATTEMPTS
    => login_attempts[g_resp.ip].locked_until
          = login_attempts[g_resp.ip].last_attempt + LOCKOUT_DURATION

\* a lockout is only ever set by a check that denies, and it is timed from
\* that check
LockSetByDenyingCheck ==
    [][\A ip \in Sources :
         login_attempts'[ip].locked_until \notin {NoLock, login_attempts[ip].locked_until} =>
            /\ g_resp' = LoginResp(ip, "denied", FALSE, LOCKOUT_DURATION, login_attempts[ip])
            /\ login_attempts'[ip].locked_until = now + LOCKOUT_DURATION
            /\ login_attempts[ip].count >= MAX_LOGIN_ATTEMPTS]_vars

\* C32: a check made more than ATTEMPT_WINDOW after the source's last
\* failure, when no lockout is running, leaves the source with count 0 and
\* allows the request; a failure of that request is then the first of a new
\* window.
C32_WindowReset ==
    [][\A ip \in Sources, password_ok \in BOOLEAN :
         /\ Login(ip, password_ok)
         /\ login_attempts[ip].present
         /\ ~Locked(login_attempts[ip], now)
         /\ ~InWindow(login_attempts[ip], now)
         => /\ check_rate_limit(login_attempts, ip, now)
                 = CheckResult([login_attempts EXCEPT ![ip] = Record(0, now, NoLock)], TRUE, None)
            /\ g_resp'.allowed
            /\ ~password_ok => login_attempts'[ip] = Record(1, now, NoLock)]_vars

\* C32 witness: a failure recorded after such a check, the source having had
\* several failures before
C32_Witness ==
    /\ g_resp.step = "failure"
    /\ g_resp.prev.present
    /\ g_resp.prev.count >= 2
    /\ ~InWindow(g_resp.prev, now)
    /\ login_attempts[g_resp.ip] = Record(1, now, NoLock)

(***************************************************************************)
(* Claims about the streaming batch                                        *)
(***************************************************************************)
Count(type) == Cardinality({i \in 1..Len(events) : events[i].type = type})

AllDecryptable ==
    \A i \in 1..Len(accounts) : ~decrypt_data(accounts[i].refresh_token).raised

\* C9 (as claimed): a finished run over N accounts has yielded one start event
\* first, N progress events, and one complete event last.
C9_EventCounts ==
    b_pc = "done" =>
        /\ events[1].type = "start"
        /\ events[Len(events)].type = "complete"
        /\ Count("start") = 1
        /\ Count("complete") = 1
        /\ Count("progress") = total

\* the event counts of C9 hold of every run in which each credential decrypts
EventCountsWhenAllDecrypt ==
    b_pc = "done" /\ AllDecryptable =>
        /\ events[1].type = "start"
        /\ events[Len(events)].type = "complete"
        /\ Count("start") = 1
        /\ Count("complete") = 1
        /\ Count("progress") = total

\* C10 (as claimed): a finished run over N accounts has yielded no delay event
\* when delay_seconds = 0 and N - 1 delay events when delay_seconds > 0.
C10_DelayCount ==
    b_pc = "done" =>
        Count("delay") = IF delay_seconds = 0 \/ total = 0 THEN 0 ELSE total - 1

\* the delay count of C10 holds of every run in which each credential decrypts
DelayCountWhenAllDecrypt ==
    b_pc = "done" /\ AllDecryptable =>
        Count("delay") = IF delay_seconds = 0 \/ total = 0 THEN 0 ELSE total - 1

\* the ids of a sequence of rows, log entries or failed_list items
Ids(seq, field) == [i \in 1..Len(seq) |-> seq[i][field]]

IsFailedEntry(entry) == entry.status = "failed"

\* the accounts of the run's log entries that failed, in the order processed
FailedAccounts == Ids(SelectSeq(refresh_logs, IsFailedEntry), "account_id")

\* what C11 says of a run that reached Complete
CompleteIsConsistent ==
    b_pc = "done" =>
        /\ total = success_count + failed_count
        /\ Len(failed_list) = failed_count
        /\ Ids(refresh_logs, "account_id") = Ids(accounts, "id")
        /\ Ids(failed_list, "id") = FailedAccounts
        /\ events[Len(events)] =
               CompleteEvent(total, success_count, failed_count, failed_list)

\* C11: no per-account failure aborts a batch: a run whose stream is read to
\* its end reaches Complete, and there total = success_count + failed_count
\* and failed_list holds exactly failed_count entries, one per failed account
\* in input order.
C11_BatchCompletes ==
    /\ []CompleteIsConsistent
    /\ (b_pc = "loop") ~> (b_pc = "done")

C11_Witness ==
    /\ b_pc = "done"
    /\ success_count >= 1
    /\ \E i, j \in 1..Len(failed_list) :
          /\ i < j
          /\ failed_list[i].error.prefix = "decrypt_failed"
          /\ failed_list[j].error.prefix # "decrypt_failed"

\* the error messages a run has persisted or put into a complete event
PublishedMessages ==
    {refresh_logs[i].error_message : i \in 1..Len(refresh_logs)}
    \cup UNION {{events[i].failed_list[j].error : j \in 1..Len(events[i].failed_list)} :
                  i \in 1..Len(events)}

\* C13 (as claimed): every error message a run persists in a log entry or
\* transmits in the failed_list of a complete event is the output of
\* sanitize_error_details: no raw provider or exception text gets there.
C13_MessagesRedacted ==
    \A m \in PublishedMessages : m.text = sanitize_error_details(m.text)

\* the log row a step has added
NewEntry == refresh_logs'[Len(refresh_logs) + 1]

\* C12: in every validation path a validated account gets exactly one log
\* entry, and its last_refresh_at is updated if and only if that entry's
\* status is success; a failed validation leaves the timestamp unchanged.
C12_LogAndStamp ==
    [][/\ Len(refresh_logs') \in {Len(refresh_logs), Len(refresh_logs) + 1}
       /\ SubSeq(refresh_logs', 1, Len(refresh_logs)) = refresh_logs
       /\ Len(refresh_requests') > Len(refresh_requests) =>
             /\ Len(refresh_requests') = Len(refresh_requests) + 1
             /\ Len(refresh_logs') = Len(refresh_logs) + 1
             /\ NewEntry.account_id = refresh_requests'[Len(refresh_requests')].account_id
       /\ IF Len(refresh_logs') = Len(refresh_logs) + 1
          THEN last_refresh_at' =
                  IF NewEntry.status = "success"
                  THEN [last_refresh_at EXCEPT ![NewEntry.account_id] = now]
                  ELSE last_refresh_at
          ELSE last_refresh_at' = last_refresh_at]_vars

C12_Witness ==
    /\ Len(refresh_logs) = 2
    /\ refresh_logs[1].status = "success"
    /\ refresh_logs[2].status = "failed"
    /\ refresh_logs[1].refresh_type # refresh_logs[2].refresh_type
    /\ last_refresh_at[refresh_logs[1].account_id] = refresh_logs[1].created_at

\* C14 (as claimed): in every validation path the stored credential is
\* decrypted first and the value sent to the token endpoint is the decrypted
\* credential, never the stored tagged ciphertext.
C14_DecryptedCredentialSent ==
    \A i \in 1..Len(refresh_requests) :
        /\ ~decrypt_data(refresh_requests[i].stored).raised
        /\ refresh_requests[i].refresh_token = decrypt_data(refresh_requests[i].stored).value

\* a batch run (streaming or retry) is at an account whose credential does
\* not decrypt
AtUndecryptable ==
    /\ b_pc \in {"loop", "retry"}
    /\ index <= total
    /\ decrypt_data(accounts[index].refresh_token).raised

C16_OneRunAtATime ==
    ~ /\ BatchInFlight
      /\ TimerInFlight
      /\ \E i \in 1..Len(accounts), j \in 1..Len(t_accounts) : accounts[i].id = t_accounts[j].id

\* C17 (as claimed): a streaming run, once started, validates every account
\* and persists its log entry whether or not the consumer keeps reading.
C17_RunSurvivesDisconnect ==
    b_pc = "closed" =>
        \A i \in 1..total :
            \E k \in 1..Len(refresh_logs) :
                /\ refresh_logs[k].account_id = accounts[i].id
                /\ refresh_logs[k].refresh_type = refresh_type

\* what C18 says of the last decision of a scheduled entry point
DecisionRespectsInterval ==
    /\ sched.executed /\ ~sched.force => ~sched.too_early
    /\ sched.force => sched.executed

\* C18 (as claimed): a scheduled run (the timer task in any schedule mode, or
\* the HTTP trigger without force) executes only if no scheduled-type log entry
\* exists or refresh_interval_days have elapsed since the newest one, otherwise
\* it validates no account and writes no log entry; with force it always
\* executes.
C18_IntervalRespected ==
    /\ [](sched.path # "none" => DecisionRespectsInterval)
    /\ [][sched' # sched /\ ~sched'.executed =>
            UNCHANGED <<b_pc, t_pc, refresh_logs, refresh_requests, last_refresh_at>>]_vars

\* the interval is respected by every decision made without the cron schedule
IntervalRespectedWithoutCron ==
    sched.path # "none" /\ ~sched.use_cron => DecisionRespectsInterval

(***************************************************************************)
(* Claims about the credential vault                                       *)
(***************************************************************************)
\* C19 (as claimed): for every plaintext s, the empty string and strings that
\* begin with the tag 'enc:' included, decrypt_data(encrypt_data(s)) returns s.
C19_RoundTrip ==
    v_pc = "round_trip" => v_out2 = Returned(v_in)

\* the round trip of C19 holds of every plaintext that does not begin with
\* the tag
RoundTripOfUntagged ==
    v_pc = "round_trip" /\ ~startswith_enc(v_in) => v_out2 = Returned(v_in)

\* C20: encrypt_data applied to a value encrypt_data returned gives that value
\* back unchanged, and decrypt_data applied to a string without the tag
\* returns the string unchanged.
C20_TaggingTransparent ==
    /\ v_pc = "encrypted_twice" => v_out2 = v_out
    /\ v_pc = "decrypted" /\ ~startswith_enc(v_in) => v_out = Returned(v_in)

C20_Witness ==
    /\ v_pc = "encrypted_twice"
    /\ v_in # <<>>
    /\ ~startswith_enc(v_in)
    /\ v_out.value # v_in
    /\ v_out2 = v_out

\* the text after the tag is a Fernet token made with the current key
Authenticates(data) == Len(data) >= 2 /\ data[2] \in FernetIVs

\* C22: decrypt_data on a tagged value that does not authenticate under the
\* current key (made with another SECRET_KEY, or corrupted) raises its error
\* and returns no string.
C22_DecryptFailsLoudly ==
    v_pc = "decrypted" /\ startswith_enc(v_in) /\ ~Authenticates(v_in) =>
        /\ v_out.raised
        /\ v_out = Raised("Failed to decrypt data")

C22_Witness ==
    /\ v_pc = "decrypted"
    /\ startswith_enc(v_in)
    /\ Len(v_in) >= 2
    /\ ~Authenticates(v_in)
    /\ v_out.raised

(***************************************************************************)
(* Claims about the credential store                                       *)
(***************************************************************************)
\* the stored value is a tagged ciphertext of the secret: it carries the tag,
\* it is not the secret itself, and whenever it authenticates under the
\* current key decrypt_data gives the secret
TaggedCiphertextOf(stored, secret) ==
    /\ startswith_enc(stored)
    /\ stored # secret
    /\ ~decrypt_data(stored).raised => decrypt_data(stored).value = secret

\* C21 (as claimed): after the start-up migration and any sequence of
\* add_account, update_account and bulk imports, every non-empty password and
\* refresh_token in the table accounts is a tagged ciphertext of the secret
\* the account was written with: no plaintext secret is at rest.
C21_NoPlaintextAtRest ==
    s_pc = "up" =>
        \A i \in 1..Len(db_accounts) :
            LET row == db_accounts[i]
                given == db_secrets[row.id]
            IN  /\ row.password # <<>> => TaggedCiphertextOf(row.password, given.password)
                /\ row.refresh_token # <<>> =>
                      TaggedCiphertextOf(row.refresh_token, given.refresh_token)

\* the same holds of every account whose secrets do not begin with the tag
NoPlaintextAtRestOfUntagged ==
    s_pc = "up" =>
        \A i \in 1..Len(db_accounts) :
            LET row == db_accounts[i]
                given == db_secrets[row.id]
            IN  /\ row.password # <<>> /\ ~startswith_enc(given.password) =>
                      TaggedCiphertextOf(row.password, given.password)
                /\ row.refresh_token # <<>> /\ ~startswith_enc(given.refresh_token) =>
                      TaggedCiphertextOf(row.refresh_token, given.refresh_token)

ReadOps == {"load_accounts", "get_account_by_email", "get_account_by_id"}

\* a credential of the stored row does not decrypt
Undecryptable(row) ==
    decrypt_data(row.password).raised \/ decrypt_data(row.refresh_token).raised

\* C23 (as claimed): no read of the store swallows a decryption failure: a
\* read that fetches a row with a credential that fails to decrypt fails, and
\* the stored ciphertext is never returned in the place of the credential.
C23_DecryptFailureNotSwallowed ==
    s_resp.op \in ReadOps =>
        \A i \in 1..Len(s_resp.accounts) :
            \A j \in RowsWith(db_accounts, "id", s_resp.accounts[i].id) :
                /\ ~Undecryptable(db_accounts[j])
                /\ decrypt_data(db_accounts[j].refresh_token).raised =>
                      s_resp.accounts[i].refresh_token # db_accounts[j].refresh_token

\* every read returns the decrypted credentials of the rows that do decrypt
ReadsDecryptWhatDecrypts ==
    s_resp.op \in ReadOps =>
        \A i \in 1..Len(s_resp.accounts) :
            \A j \in RowsWith(db_accounts, "id", s_resp.accounts[i].id) :
                ~Undecryptable(db_accounts[j]) =>
                    /\ Returned(s_resp.accounts[i].password) =
                          decrypt_data(db_accounts[j].password)
                    /\ Returned(s_resp.accounts[i].refresh_token) =
                          decrypt_data(db_accounts[j].refresh_token)

AddressesUnique ==
    \A i, j \in 1..Len(db_accounts) : i # j => db_accounts[i].email # db_accounts[j].email

\* the address is held by an account other than account_id
HeldByAnother(email_addr, account_id) ==
    \E i \in RowsWith(db_accounts, "email", email_addr) : db_accounts[i].id # account_id

\* C24: after any sequence of imports, adds, updates and deletes no two
\* accounts share an address; an import leaves the accounts present as they
\* are and adds nothing for a line whose address is held, and an update that
\* would give an account the address of another fails; both leave every
\* stored account unchanged.
C24_AddressUnique ==
    /\ []AddressesUnique
    /\ [][LET request == s_resp'.request IN
          /\ s_resp'.op = "api_add_account" /\ s_resp' # s_resp =>
                /\ SubSeq(db_accounts', 1, Len(db_accounts)) = db_accounts
                /\ (\A k \in 1..Len(request.emails) :
                       RowsWith(db_accounts, "email", request.emails[k]) # {}) =>
                      /\ db_accounts' = db_accounts
                      /\ db_seq' = db_seq
                      /\ ~s_resp'.ok
                      /\ s_resp'.added = 0
          /\ /\ s_resp'.op = "api_update_account" /\ s_resp' # s_resp
             /\ RowsWith(db_accounts, "id", request.id) # {}
             /\ HeldByAnother(request.emails[1], request.id)
             => /\ db_accounts' = db_accounts
                /\ ~s_resp'.ok]_vars

C24_Witness ==
    /\ s_resp.op = "api_update_account"
    /\ ~s_resp.ok
    /\ Len(db_accounts) = 2
    /\ db_accounts[1].email # db_accounts[2].email

DeleteOps == {"delete_account_by_id", "delete_account_by_email"}

StoredIds == {db_accounts[i].id : i \in 1..Len(db_accounts)}

\* C25 (as claimed): deleting an account also deletes all of its rows in
\* account_refresh_logs: after the delete no log row references an account
\* that is not in the table.
C25_DeleteCascades ==
    s_resp.op \in DeleteOps =>
        \A k \in 1..Len(refresh_logs) : refresh_logs[k].account_id \in StoredIds

\* the delete does remove the account row itself
DeleteRemovesAccount ==
    s_resp.op \in DeleteOps =>
        /\ s_resp.request.id \notin StoredIds
        /\ \A k \in 1..Len(s_resp.request.emails) :
              RowsWith(db_accounts, "email", s_resp.request.emails[k]) = {}

(***************************************************************************)
(* Claims about error reports                                              *)
(***************************************************************************)
RejectionCodes ==
    {"GRAPH_TOKEN_FAILED", "GRAPH_TOKEN_MISSING", "IMAP_TOKEN_FAILED", "IMAP_TOKEN_MISSING"}

ExceptionCodes == {"GRAPH_TOKEN_EXCEPTION", "IMAP_TOKEN_EXCEPTION"}

\* the error of a token acquisition is that of a provider rejection: its
\* code and type say so, it carries the status the provider answered with
\* and the redacted body
ReportsRejection(res, err) ==
    /\ err.code \in RejectionCodes
    /\ err.type \in {"GraphAPIError", "IMAPError"}
    /\ err.status = res.status
    /\ err.details = sanitize_error_details(get_response_details(res))

\* the error is that of an exception: code and type say so
ReportsException(err) ==
    /\ err.code \in ExceptionCodes
    /\ err.type \notin {"GraphAPIError", "IMAPError"}

\* C29 (as claimed): a token acquisition succeeds exactly when the provider
\* answered 200 with a non-empty access token; otherwise its error carries
\* the provider's status and the redacted body, and its kind is that of a
\* rejection for every answer of the provider (non-200, or 200 without a
\* token) and that of an exception when the request raised.
C29_TokenResult ==
    k_req # NoTokenRequest =>
        /\ k_result.success <=> TokenOk(k_req.res)
        /\ ~k_result.success =>
              IF k_req.res.exc THEN ReportsException(k_result.error)
              ELSE ReportsRejection(k_req.res, k_result.error)

\* it is so for every answer but a 200 whose body is no JSON object
TokenResultOfParsedAnswers ==
    k_req # NoTokenRequest =>
        /\ k_result.success <=> TokenOk(k_req.res)
        /\ ~k_result.success /\ (k_req.res.status # 200 \/ k_req.res.json) =>
              IF k_req.res.exc THEN ReportsException(k_result.error)
              ELSE ReportsRejection(k_req.res, k_result.error)
        /\ ~k_req.res.exc /\ k_req.res.status = 200 /\ ~k_req.res.json =>
              /\ ReportsException(k_result.error)
              /\ k_result.error.status = 500
              /\ k_result.error.details = JSON_ERROR_TEXT

\* C30 (as claimed): whatever error body holds a secret-bearing pair
\* (refresh_token, access_token, password or secret, as a JSON member or as a
\* form field) or a bearer token, the text sanitize_error_details returns
\* does not contain the secret value.
C30_SecretsRedacted ==
    e_body # NoBody => ~Contains(e_details, e_body.secret)

\* the shapes the patterns do cover: bearer tokens, refresh_token and
\* access_token in both forms, a JSON password, and a form password or secret
\* that starts with a character of the token class and has no other
MaskedShapes ==
    {body \in Bodies :
        \/ body.key \in {"bearer", "refresh_token", "access_token"}
        \/ body.key = "password" /\ body.json
        \/ ~body.json /\ \A k \in 1..Len(body.secret) : body.secret[k] \notin NonTok}

SanitizeRedactsMaskedShapes ==
    e_body \in MaskedShapes => ~Contains(e_details, e_body.secret)

\* a secret of any other shape is returned as it came, or cut after a prefix
\* is masked
SanitizeLeaksOtherShapes ==
    e_body \in Bodies \ MaskedShapes =>
        \/ Contains(e_details, e_body.secret)
        \/ \E k \in 2..Len(e_body.secret) :
              Contains(e_details, MASK \o SubSeq(e_body.secret, k, Len(e_body.secret)))

(***************************************************************************)
(* Claims about the IMAP backend                                           *)
(***************************************************************************)
\* the call returned a page: token, connection, select and search succeeded
ImapPageReturned == i_pc = "returned" /\ i_session.result.success

\* the positions skip .. skip+top-1 of a folder of n messages, counted from
\* the newest, newest first (message m is the m-th oldest)
Window(n, skip, top) ==
    [i \in 1..Min(top, Max(0, n - skip)) |-> n - skip - i + 1]

\* the page the same call returns for skip = k * top
PageOf(req, k) ==
    get_emails_imap_with_server(req.tok, req.res, req.folder, k * req.top, req.top).emails

\* the pages for skip = 0, top, 2*top, ... that start inside the folder
PageNumbers(req) == {k \in 0..req.res.total : k * req.top < req.res.total}

\* the places (page, position) where message m is returned
PlacesOf(req, m) ==
    {place \in PageNumbers(req) \X (1..req.top) :
        /\ place[2] <= Len(PageOf(req, place[1]))
        /\ PageOf(req, place[1])[place[2]] = m}

\* C33 (as claimed): a call that returns a page of a folder of total messages
\* fetches exactly the messages at positions skip .. skip+top-1 counted from
\* the newest, newest first; it returns min(top, max(0, total - skip)) ids;
\* and the pages for skip = 0, top, 2*top, ... are disjoint and hold every
\* message once.
C33_Pagination ==
    ImapPageReturned =>
        /\ i_session.fetched = Window(i_req.res.total, i_req.skip, i_req.top)
        /\ Len(i_session.result.emails) = Min(i_req.top, Max(0, i_req.res.total - i_req.skip))
        /\ \A m \in 1..i_req.res.total : Cardinality(PlacesOf(i_req, m)) = 1

\* the messages fetched are those of the window, whatever fetch answers
FetchesTheWindow ==
    ImapPageReturned =>
        i_session.fetched = Window(i_req.res.total, i_req.skip, i_req.top)

\* when every fetch succeeds the page is the window and the pages cover the
\* folder
PaginationWhenFetchesSucceed ==
    ImapPageReturned /\ i_req.res.bad = {} =>
        /\ i_session.result.emails = Window(i_req.res.total, i_req.skip, i_req.top)
        /\ \A m \in 1..i_req.res.total : Cardinality(PlacesOf(i_req, m)) = 1

\* a message whose fetch fails is left out of the page it belongs to
FailedFetchIsDropped ==
    ImapPageReturned =>
        i_session.result.emails = SelectSeq2(i_session.fetched, i_req.res.bad)

\* the call got as far as selecting a folder
ImapProbed ==
    /\ i_pc = "returned"
    /\ get_access_token_imap_result(i_req.tok).success
    /\ i_req.res.connect_ok

\* select was called with the candidates of the folder in their order, up to
\* the first that returned OK and with none after it
ProbesInOrder ==
    /\ i_session.tried # <<>>
    /\ Len(i_session.tried) <= Len(possible_folders(i_req.folder))
    /\ i_session.tried = SubSeq(possible_folders(i_req.folder), 1, Len(i_session.tried))
    /\ \A n \in 1..(Len(i_session.tried) - 1) : i_session.tried[n] \notin i_req.res.selectable
    /\ \/ i_session.tried[Len(i_session.tried)] \in i_req.res.selectable
       \/ i_session.tried = possible_folders(i_req.folder)

\* no candidate of the folder can be selected
EveryCandidateFails ==
    \A n \in 1..Len(possible_folders(i_req.folder)) :
        possible_folders(i_req.folder)[n] \notin i_req.res.selectable

\* the call failed with an error whose details name every tried candidate
\* and the given folder names, and fetched nothing
SelectErrorNames(names) ==
    /\ ~i_session.result.success
    /\ i_session.result.error.type = "IMAPSelectError"
    /\ \A n \in 1..Len(i_session.tried) :
          Contains(i_session.result.error.details, <<i_session.tried[n]>>)
    /\ \A n \in 1..Len(names) : Contains(i_session.result.error.details, <<names[n]>>)
    /\ i_session.fetched = <<>>

\* C34 (as claimed): the candidate names of the requested folder are tried
\* in their listed order, the first whose select returns OK is selected and
\* none is tried after it; if every candidate fails, the error contains all
\* tried candidate names and the available folder names, and no message is
\* fetched.
C34_FolderProbing ==
    ImapProbed =>
        /\ ProbesInOrder
        /\ EveryCandidateFails => SelectErrorNames(i_req.res.listed.names)

\* C34 (amended): as above, but of the available folder names the error
\* contains the first ten that connection.list() returned, and none when
\* list raised or returned none.
C34_FolderProbingFirstTen ==
    ImapProbed =>
        /\ ProbesInOrder
        /\ EveryCandidateFails =>
              /\ SelectErrorNames(SubSeq(i_req.res.listed.names, 1,
                                         Min(AVAILABLE_FOLDERS_SHOWN,
                                             Len(i_req.res.listed.names))))
              /\ \A n \in 1..Len(i_req.res.listed.names) :
                    n > AVAILABLE_FOLDERS_SHOWN =>
                        ~Contains(i_session.result.error.details,
                                  <<i_req.res.listed.names[n]>>)
              /\ Contains(i_session.result.error.details, <<"available_folders">>)
                    <=> ~i_req.res.listed.raised

\* every candidate of a folder with more than one failed on a mailbox of
\* more than ten folders
C34_Witness ==
    /\ ImapProbed
    /\ EveryCandidateFails
    /\ Len(i_session.tried) > 1
    /\ Len(i_req.res.listed.names) > AVAILABLE_FOLDERS_SHOWN
    /\ i_session.result.error.type = "IMAPSelectError"

\* the third candidate of the junk folder is the first that can be selected
ThirdCandidateSelected ==
    /\ ImapProbed
    /\ i_req.folder = "junkemail"
    /\ i_session.tried = SubSeq(possible_folders("junkemail"), 1, 3)
    /\ i_session.result.success

(***************************************************************************)
(* Claims about validation                                                 *)
(***************************************************************************)
\* test_refresh_token has answered the request k_req
TokenTested == k_tested # NotTested

\* the failure is reported as a rejection by the provider: the message is the
\* provider's, not that of the except branch
ReportsProviderRejection(r) == ~r.success /\ r.error_msg.prefix = ""

\* C35 (as claimed): for every answer of the token endpoint,
\* test_refresh_token reports success exactly when
\* get_access_token_graph_result would (HTTP 200 with an access token), and
\* it reports a provider rejection, not an exception, for every non-200
\* answer.
C35_ValidationIsTokenAcquirer ==
    TokenTested =>
        /\ k_tested.success <=> get_access_token_graph_result(k_req.res).success
        /\ ~k_req.res.exc /\ k_req.res.status # 200 => ReportsProviderRejection(k_tested)

\* what it does: success is status 200, whatever the body; a non-200 answer
\* is a rejection when its body is JSON and an exception when it is not
ValidationFollowsStatus ==
    TokenTested =>
        /\ k_tested.success <=> (~k_req.res.exc /\ k_req.res.status = 200)
        /\ ~k_req.res.exc /\ k_req.res.status # 200 =>
              (ReportsProviderRejection(k_tested) <=> k_req.res.json)

\* the two agree on every answer but a 200 without an access token
ValidationAgreesUnless200WithoutToken ==
    TokenTested /\ (k_req.res.exc \/ k_req.res.status # 200 \/ k_req.res.has_token) =>
        (k_tested.success <=> get_access_token_graph_result(k_req.res).success)

(***************************************************************************)
(* Claims about the delay between token requests                           *)
(***************************************************************************)
\* the step sends a token request
SendsTokenRequest == Len(refresh_requests') = Len(refresh_requests) + 1

\* the step is one of trigger_refresh_internal
IsTimerStep == t_pc' # t_pc \/ t_index' # t_index

\* a later account of the list will be sent to the provider too (the streams
\* and the retry skip the accounts whose credential does not decrypt)
RequestFollows(accs, i, decrypts) ==
    \E j \in (i + 1)..Len(accs) :
        decrypts => ~decrypt_data(accs[j].refresh_token).raised

\* the step sends a request that is not the last of its run, with a delay
\* configured
ThrottleDue ==
    /\ SendsTokenRequest
    /\ IF IsTimerStep THEN t_delay > 0 /\ RequestFollows(t_accounts, t_index, FALSE)
       ELSE delay_seconds > 0 /\ RequestFollows(accounts, index, TRUE)

\* the run is suspended in time.sleep(delay_seconds) after the step
Suspended == IF IsTimerStep THEN t_pc' = "sleep" ELSE b_pc' = "sleep"

\* C36 (as claimed): in every batch variant (streaming manual, retry of the
\* failed accounts, scheduled over HTTP, scheduled by the timer) with
\* delay_seconds > 0, a token request that is followed by another one of the
\* same run is followed by a suspension of delay_seconds first.
C36_ThrottleNeverSkipped == [][ThrottleDue => Suspended]_vars

\* it is so in the streams and in the timer-driven run
StreamsAndTimerThrottled == [][ThrottleDue /\ b_pc # "retry" => Suspended]_vars

\* the retry of the failed accounts never sleeps
RetryNeverSleeps == [][b_pc = "retry" => b_pc' # "sleep"]_vars

\* a retry has sent two requests
RetrySentTwo ==
    /\ b_pc = "retry_done"
    /\ Len(accounts) = 2
    /\ \E i \in 2..Len(refresh_requests) :
          /\ refresh_requests[i - 1].account_id = accounts[1].id
          /\ refresh_requests[i].account_id = accounts[2].id
    /\ success_count + failed_count = 2

(***************************************************************************)
(* Claims about delete_emails_graph                                        *)
(***************************************************************************)
\* the call obtained a token and returned
DeleteReturned == d_pc = "returned" /\ get_access_token_graph(d_req.tok)

RECURSIVE Flatten(_)
\* the sequences of a sequence one after the other
Flatten(seqs) == IF seqs = <<>> THEN <<>> ELSE Head(seqs) \o Flatten(Tail(seqs))

\* C37: the ids of a call are sent in consecutive batches of at most
\* BATCH_SIZE (20) sub-requests: the batches one after the other are the ids
\* in input order, so each id is in exactly one batch, and no batch but the
\* last has fewer than 20.
C37_BatchesOfTwenty ==
    DeleteReturned =>
        /\ Flatten(d_res.sent) = d_req.message_ids
        /\ \A k \in 1..Len(d_res.sent) :
              /\ Len(d_res.sent[k]) \in 1..20
              /\ k < Len(d_res.sent) => Len(d_res.sent[k]) = 20

\* a call with more than two batches' worth of ids
C37_Witness ==
    /\ DeleteReturned
    /\ Len(d_req.message_ids) > 2 * 20
    /\ Len(d_res.sent) = 3

\* every requested id has an entry in the responses to its batch that
\* reports it deleted
EveryIdReportedDeleted ==
    \A k \in 1..Len(d_res.sent) :
        /\ d_req.answers[k].kind = "ok"
        /\ \A i \in 1..Len(d_res.sent[k]) :
              \E j \in Deleted(d_req.answers[k].responses) :
                  d_req.answers[k].responses[j].id = i - 1

\* C38 (as claimed): on every return of a call that obtained a token,
\* success_count + failed_count is the number of requested ids, so success
\* means that every requested id was reported deleted, whatever the answers
\* to the batches hold.
C38_CountsAddUp ==
    DeleteReturned =>
        /\ d_res.result.success_count + d_res.result.failed_count = Len(d_req.message_ids)
        /\ d_res.result.success => EveryIdReportedDeleted

\* every 200 answer holds one entry for each request of its batch
ResponsesComplete ==
    \A k \in 1..Len(d_res.sent) :
        d_req.answers[k].kind = "ok" =>
            /\ Len(d_req.answers[k].responses) = Len(d_res.sent[k])
            /\ \A i \in 1..Len(d_res.sent[k]) : d_req.answers[k].responses[i].id = i - 1

\* the counts add up when the answers are complete
CountsAddUpWhenResponsesComplete ==
    DeleteReturned /\ ResponsesComplete =>
        /\ d_res.result.success_count + d_res.result.failed_count = Len(d_req.message_ids)
        /\ d_res.result.success => EveryIdReportedDeleted

\* a call reports success although a 200 answer held no entry
SuccessWithoutResponses ==
    /\ DeleteReturned
    /\ d_req.message_ids # <<>>
    /\ d_res.result.success
    /\ d_res.result.success_count = 0

(***************************************************************************)
(* Claims about concurrent logins and the end of a lockout                 *)
(***************************************************************************)
\* C39 (as claimed): with the login requests of one source interleaving
\* (check_rate_limit, the password verification and record_login_failure of
\* different requests), the failure count of the source never exceeds 5; each
\* failed verification adds one to the count, so no more than 5 verifications
\* are made for it between two resets of its record.
C39_CountBoundedUnderRace ==
    \A ip \in Sources : login_attempts[ip].count <= 5

\* every request that passed the check while the count was below the
\* threshold goes on to verify its password: the count can pass the threshold
\* by the number of other requests in flight
CountBoundedByRequestsInFlight ==
    \A ip \in Sources : login_attempts[ip].count <= MAX_LOGIN_ATTEMPTS - 1 + NumReq

\* a sixth failure has been recorded for a source
SixthFailureRecorded ==
    \E ip \in Sources : login_attempts[ip].count = MAX_LOGIN_ATTEMPTS + 1

\* C40: whatever record the logins and checks made so far have left for a
\* source, a check_rate_limit made more than 900 s (the 600 s window and the
\* 300 s lockout) after the last recorded failure of the source allows the
\* request (last_attempt of a record with failures is the time of the last).
C40_LockoutBounded ==
    \A ip \in Sources :
        login_attempts[ip].present /\ now - login_attempts[ip].last_attempt > 900 =>
            check_rate_limit(login_attempts, ip, now).allowed

\* a source that a check had locked out has made a login, its check allowed
\* it, more than 900 s after its last failure
C40_Witness ==
    /\ g_resp.step = "failure"
    /\ login_attempts[g_resp.ip].last_attempt = now
    /\ g_resp.prev.present
    /\ g_resp.prev.count >= MAX_LOGIN_ATTEMPTS
    /\ g_resp.prev.locked_until # NoLock
    /\ now - g_resp.prev.last_attempt > 900

\* the latest time at which a lockout can end is 900 s after the last failure
LockEndsWithin900 ==
    \A ip \in Sources :
        login_attempts[ip].present /\ login_attempts[ip].locked_until # NoLock =>
            login_attempts[ip].locked_until
                <= login_attempts[ip].last_attempt + ATTEMPT_WINDOW + LOCKOUT_DURATION

====
